---- MODULE Spec2Model ----
(***************************************************************************)
(* A model of k8s-resource-cli: the two collectors (control plane and      *)
(* Porter), the Porter client's two caches, printResults, and the unit     *)
(* conversion functions parseResourceValue / formatCPU / formatMemory.     *)
(*                                                                         *)
(* Go strings are sequences of one-character strings, so that prefix and   *)
(* suffix tests, concatenation and scanning are computed, not assumed.     *)
(* Quantities stay far below 2^31, so int32/int64 wrap-around never occurs *)
(* in the modelled runs.                                                   *)
(***************************************************************************)
EXTENDS Integers, Sequences, FiniteSets, TLC

VARIABLES
    pc,           \* position of runCLI / of the conversion driver
    flags,        \* the command line: usePorter, named, includeCronJobs
    deployments,  \* runCLI's []DeploymentMetrics
    origin,       \* per record: what the collector saw when it built it
    client,       \* the PorterClient: caches and loaded flags
    apps,         \* what ListApplications returned, and the loop index
    calls,        \* bulk catalog requests issued so far, per catalog
    out,          \* what printResults wrote and totalled
    stderr,       \* the warnings and errors written so far, in order
    conv          \* input and result of the unit conversion under test

vars == <<pc, flags, deployments, origin, client, apps, calls, out, stderr, conv>>

----------------------------------------------------------------------------
(* Bounds of the model *)

MaxRecords == 2
MaxApps == 2

----------------------------------------------------------------------------
(* Types of the program *)

OutputTypeUsage == <<"u","s","a","g","e">>
OutputTypeRequests == <<"r","e","q","u","e","s","t","s">>
OutputTypeMaxRequests == <<"m","a","x","-","r","e","q","u","e","s","t","s">>

OutputTypes == {OutputTypeUsage, OutputTypeRequests, OutputTypeMaxRequests}

ResourceMetrics(cpu, memory) == [CPU |-> cpu, Memory |-> memory]

ZeroResources == ResourceMetrics(0, 0)

\* DeploymentMetrics{}: the zero value of the record
ZeroDeploymentMetrics ==
    [Name |-> <<>>, Namespace |-> <<>>, Type |-> "",
     CurrentReplicas |-> 0, DesiredReplicas |-> 0, MaxReplicas |-> 0,
     Usage |-> ZeroResources, Requests |-> ZeroResources,
     MaxRequests |-> ZeroResources]

\* A *int32: nil, or a pointer to a value
NilPtr == [isNil |-> TRUE, val |-> 0]
Ptr(v) == [isNil |-> FALSE, val |-> v]

----------------------------------------------------------------------------
(* Helpers on sequences *)

RECURSIVE SumCPU(_)
SumCPU(s) == IF s = <<>> THEN 0 ELSE Head(s).CPU + SumCPU(Tail(s))

RECURSIVE SumMemory(_)
SumMemory(s) == IF s = <<>> THEN 0 ELSE Head(s).Memory + SumMemory(Tail(s))

RECURSIVE Flatten(_)
Flatten(ss) == IF ss = <<>> THEN <<>> ELSE Head(ss) \o Flatten(Tail(ss))

----------------------------------------------------------------------------
(* Control-plane collector: getDeploymentMetrics *)

\* The index of the last HPA of the list that targets the deployment
RECURSIVE LastMatchingHPA(_, _, _)
LastMatchingHPA(hpas, name, i) ==
    IF i > Len(hpas) THEN 0
    ELSE LET rest == LastMatchingHPA(hpas, name, i + 1)
         IN IF rest # 0 THEN rest
            ELSE IF hpas[i].targetName = name /\ hpas[i].targetKind = "Deployment"
                 THEN i
                 ELSE 0

\* The first HPA of the list that targets this deployment, as the loop with
\* its break finds it; 0 when none does.
RECURSIVE FirstMatchingHPA(_, _, _)
FirstMatchingHPA(hpas, name, i) ==
    IF i > Len(hpas) THEN 0
    ELSE IF hpas[i].targetName = name /\ hpas[i].targetKind = "Deployment"
         THEN i
         ELSE FirstMatchingHPA(hpas, name, i + 1)

\* The requests summed over every container of every listed pod
PodRequests(pods) ==
    LET cs == Flatten(pods) IN ResourceMetrics(SumCPU(cs), SumMemory(cs))

\* PodUsage summing the items whether or not the metrics list failed
PodUsageOfFailedList(api) ==
    LET cs == Flatten(api.podMetrics)
    IN ResourceMetrics(SumCPU(cs), SumMemory(cs))

\* The usage summed over every container of every pod metrics item, left at
\* zero when the metrics list failed
PodUsage(api) ==
    IF api.metricsErr THEN ZeroResources
    ELSE LET cs == Flatten(api.podMetrics)
         IN ResourceMetrics(SumCPU(cs), SumMemory(cs))

\* ApplyHPA dividing by the replica count of the deployment's status
ApplyHPAStatusReplicas(dm, api, name) ==
    LET k == FirstMatchingHPA(api.hpas, name, 1) IN
    IF api.hpaErr \/ k = 0 THEN dm
    ELSE LET maxR == api.hpas[k].maxReplicas
             n == dm.CurrentReplicas
         IN IF maxR > dm.DesiredReplicas /\ n > 0
            THEN [dm EXCEPT !.MaxReplicas = maxR,
                            !.MaxRequests = ResourceMetrics(
                                (dm.Requests.CPU \div n) * maxR,
                                (dm.Requests.Memory \div n) * maxR)]
            ELSE [dm EXCEPT !.MaxReplicas = maxR]

\* The HPA step: MaxReplicas and MaxRequests after the HPA list was read
ApplyHPA(dm, api, name) ==
    LET k == FirstMatchingHPA(api.hpas, name, 1) IN
    IF api.hpaErr \/ k = 0 THEN dm
    ELSE LET maxR == api.hpas[k].maxReplicas
             n == Len(api.pods)
         IN IF maxR > dm.DesiredReplicas /\ n > 0
            THEN [dm EXCEPT !.MaxReplicas = maxR,
                            !.MaxRequests = ResourceMetrics(
                                (dm.Requests.CPU \div n) * maxR,
                                (dm.Requests.Memory \div n) * maxR)]
            ELSE [dm EXCEPT !.MaxReplicas = maxR]

\* The warnings getDeploymentMetrics writes to stderr itself, in order
DeploymentWarnings(api) ==
    (IF api.metricsErr THEN <<"Warning: Error getting pod metrics">> ELSE <<>>)
    \o (IF api.hpaErr THEN <<"Warning: Error listing HPA">> ELSE <<>>)

\* getDeploymentMetrics: api holds the answers of the API server to the calls
\* the function makes (Get deployment, List pods, List pod metrics, List HPA).
\* cause is the error returned, warnings what the function wrote to stderr.
getDeploymentMetrics(namespace, name, api) ==
    IF api.getErr
    THEN [dm |-> ZeroDeploymentMetrics, err |-> TRUE,
          cause |-> "error getting deployment", warnings |-> <<>>]
    ELSE
    LET dm0 == [ZeroDeploymentMetrics EXCEPT
                   !.Name = name, !.Namespace = namespace,
                   !.Type = "Deployment",
                   !.CurrentReplicas = api.statusReplicas,
                   !.DesiredReplicas =
                       IF api.specReplicas.isNil THEN 0 ELSE api.specReplicas.val,
                   !.MaxReplicas =
                       IF api.specReplicas.isNil THEN 0 ELSE api.specReplicas.val]
    IN IF api.podsErr
       THEN [dm |-> dm0, err |-> TRUE, cause |-> "error listing pods",
             warnings |-> <<>>]
       ELSE LET dm1 == [dm0 EXCEPT !.Requests = PodRequests(api.pods),
                                   !.Usage = PodUsage(api)]
            IN [dm |-> ApplyHPA(dm1, api, name), err |-> FALSE, cause |-> "",
                warnings |-> DeploymentWarnings(api)]

----------------------------------------------------------------------------
(* Control-plane collector: getCronJobMetrics *)

\* CronJobDesiredReplicas taking the parallelism before the completions
CronJobDesiredReplicasByParallelism(api) ==
    IF ~api.parallelism.isNil THEN api.parallelism.val
    ELSE IF ~api.completions.isNil THEN api.completions.val
    ELSE 1

\* desiredReplicas: completions if set, else parallelism if set, else 1
CronJobDesiredReplicas(api) ==
    IF ~api.completions.isNil THEN api.completions.val
    ELSE IF ~api.parallelism.isNil THEN api.parallelism.val
    ELSE 1

\* The loop over Status.Active: desiredReplicas added once per active job
RECURSIVE CronJobCurrentReplicas(_, _)
CronJobCurrentReplicas(active, desired) ==
    IF active = <<>> THEN 0
    ELSE desired + CronJobCurrentReplicas(Tail(active), desired)

\* CronJobRequests without the factor desiredReplicas
RECURSIVE CronJobRequestsNotScaled(_, _)
CronJobRequestsNotScaled(containers, desired) ==
    IF containers = <<>> THEN ZeroResources
    ELSE LET rest == CronJobRequestsNotScaled(Tail(containers), desired)
         IN ResourceMetrics(Head(containers).CPU + rest.CPU,
                            Head(containers).Memory + rest.Memory)

\* The loop over the template's containers: each request times desiredReplicas
RECURSIVE CronJobRequests(_, _)
CronJobRequests(containers, desired) ==
    IF containers = <<>> THEN ZeroResources
    ELSE LET rest == CronJobRequests(Tail(containers), desired)
         IN ResourceMetrics(Head(containers).CPU * desired + rest.CPU,
                            Head(containers).Memory * desired + rest.Memory)

\* The usage of the pods of every active job: a job whose pod list failed and
\* a pod whose metrics Get failed contribute nothing.
RECURSIVE CronJobUsage(_)
CronJobUsage(active) ==
    IF active = <<>> THEN ZeroResources
    ELSE LET job == Head(active)
             cs == IF job.podsErr THEN <<>> ELSE Flatten(job.podMetrics)
             rest == CronJobUsage(Tail(active))
         IN ResourceMetrics(SumCPU(cs) + rest.CPU, SumMemory(cs) + rest.Memory)

getCronJobMetrics(namespace, name, api) ==
    IF api.getErr
    THEN [dm |-> ZeroDeploymentMetrics, err |-> TRUE,
          cause |-> "error getting cronjob", warnings |-> <<>>]
    ELSE
    LET desired == CronJobDesiredReplicas(api)
        requests == CronJobRequests(api.containers, desired)
    IN [dm |-> [Name |-> name, Namespace |-> namespace, Type |-> "CronJob",
                CurrentReplicas |-> CronJobCurrentReplicas(api.active, desired),
                DesiredReplicas |-> desired,
                MaxReplicas |-> desired,
                Usage |-> CronJobUsage(api.active),
                Requests |-> requests,
                MaxRequests |-> requests],
        err |-> FALSE, cause |-> "", warnings |-> <<>>]

----------------------------------------------------------------------------
(* Remote collector: the PorterClient and its two caches *)

\* A Go map as a function on its key set; make(map...) is the empty one
EmptyMap == [k \in {} |-> 0]

MapSet(m, k, v) == [x \in DOMAIN m \cup {k} |-> IF x = k THEN v ELSE m[x]]

\* The loop storing a bulk response in a cache, keyed by ID, in list order
RECURSIVE StoreAll(_, _)
StoreAll(cache, items) ==
    IF items = <<>> THEN cache
    ELSE StoreAll(MapSet(cache, Head(items).ID, Head(items)), Tail(items))

NewPorterClient ==
    [deploymentTargetCache |-> EmptyMap, deploymentTargetsLoaded |-> FALSE,
     clusterCache |-> EmptyMap, clustersLoaded |-> FALSE]

\* loadDeploymentTargets leaving deploymentTargetsLoaded as it was
loadDeploymentTargetsFlagNotSet(c, resp) ==
    IF resp.err THEN [client |-> c, err |-> TRUE]
    ELSE [client |-> [c EXCEPT
                        !.deploymentTargetCache =
                            StoreAll(c.deploymentTargetCache, resp.items)],
          err |-> FALSE]

\* loadDeploymentTargets: resp is the outcome of doAPIRequest
loadDeploymentTargets(c, resp) ==
    IF resp.err THEN [client |-> c, err |-> TRUE]
    ELSE [client |-> [c EXCEPT
                        !.deploymentTargetCache =
                            StoreAll(c.deploymentTargetCache, resp.items),
                        !.deploymentTargetsLoaded = TRUE],
          err |-> FALSE]

\* GetDeploymentTarget answering an absent identifier with a placeholder
GetDeploymentTargetPlaceholder(c, targetID, resp) ==
    LET load == IF c.deploymentTargetsLoaded THEN [client |-> c, err |-> FALSE]
                ELSE loadDeploymentTargets(c, resp)
        n == IF c.deploymentTargetsLoaded THEN 0 ELSE 1
        c2 == load.client
    IN IF load.err
       THEN [client |-> c2, ok |-> FALSE, requests |-> n, failed |-> 1]
       ELSE IF targetID \in DOMAIN c2.deploymentTargetCache
       THEN [client |-> c2, ok |-> TRUE, requests |-> n, failed |-> 0,
             target |-> c2.deploymentTargetCache[targetID]]
       ELSE [client |-> c2, ok |-> TRUE, requests |-> n, failed |-> 0,
             target |-> [ID |-> targetID, Name |-> <<"u">>, ClusterID |-> 0]]

\* GetDeploymentTarget: requests counts the bulk requests the call issued,
\* failed those of them that failed.
GetDeploymentTarget(c, targetID, resp) ==
    LET load == IF c.deploymentTargetsLoaded THEN [client |-> c, err |-> FALSE]
                ELSE loadDeploymentTargets(c, resp)
        n == IF c.deploymentTargetsLoaded THEN 0 ELSE 1
        c2 == load.client
    IN IF load.err
       THEN [client |-> c2, ok |-> FALSE, requests |-> n, failed |-> 1]
       ELSE IF targetID \in DOMAIN c2.deploymentTargetCache
       THEN [client |-> c2, ok |-> TRUE, requests |-> n, failed |-> 0,
             target |-> c2.deploymentTargetCache[targetID]]
       ELSE [client |-> c2, ok |-> FALSE, requests |-> n, failed |-> 0]

\* loadClusters storing what was decoded before it looks at the error
loadClustersStoresFirst(c, resp) ==
    LET stored == [c EXCEPT !.clusterCache = StoreAll(c.clusterCache, resp.items)]
    IN IF resp.err THEN [client |-> stored, err |-> TRUE]
       ELSE [client |-> [stored EXCEPT !.clustersLoaded = TRUE], err |-> FALSE]

\* loadClusters: as loadDeploymentTargets, on the cluster cache
loadClusters(c, resp) ==
    IF resp.err THEN [client |-> c, err |-> TRUE]
    ELSE [client |-> [c EXCEPT
                        !.clusterCache = StoreAll(c.clusterCache, resp.items),
                        !.clustersLoaded = TRUE],
          err |-> FALSE]

\* GetCluster fetching the clusters whether or not they are loaded
GetClusterAlwaysLoads(c, clusterID, resp) ==
    LET load == loadClusters(c, resp)
        c2 == load.client
    IN IF load.err
       THEN [client |-> c2, ok |-> FALSE, requests |-> 1, failed |-> 1]
       ELSE IF clusterID \in DOMAIN c2.clusterCache
       THEN [client |-> c2, ok |-> TRUE, requests |-> 1, failed |-> 0,
             cluster |-> c2.clusterCache[clusterID]]
       ELSE [client |-> c2, ok |-> FALSE, requests |-> 1, failed |-> 0]

\* GetCluster: as GetDeploymentTarget, on the cluster cache
GetCluster(c, clusterID, resp) ==
    LET load == IF c.clustersLoaded THEN [client |-> c, err |-> FALSE]
                ELSE loadClusters(c, resp)
        n == IF c.clustersLoaded THEN 0 ELSE 1
        c2 == load.client
    IN IF load.err
       THEN [client |-> c2, ok |-> FALSE, requests |-> n, failed |-> 1]
       ELSE IF clusterID \in DOMAIN c2.clusterCache
       THEN [client |-> c2, ok |-> TRUE, requests |-> n, failed |-> 0,
             cluster |-> c2.clusterCache[clusterID]]
       ELSE [client |-> c2, ok |-> FALSE, requests |-> n, failed |-> 0]

----------------------------------------------------------------------------
(* Remote collector: getPorterApplicationMetrics *)

\* strings.HasPrefix
HasPrefix(s, prefix) ==
    Len(s) >= Len(prefix) /\ SubSeq(s, 1, Len(prefix)) = prefix

\* ComposeLocation without the prefix test
ComposeAlways(targetName, clusterName) == clusterName \o <<"-">> \o targetName

\* The target name under its cluster's name, unless it starts with it already
ComposeLocation(targetName, clusterName) ==
    IF HasPrefix(targetName, clusterName) THEN targetName
    ELSE clusterName \o <<"-">> \o targetName

\* ResolveLocation leaving the location empty when a lookup fails
ResolveLocationNoFallback(c, targetID, targetsResp, clustersResp) ==
    LET t == GetDeploymentTarget(c, targetID, targetsResp)
        none == [requests |-> 0, failed |-> 0]
    IN IF ~t.ok \/ t.target.Name = <<>>
       THEN [client |-> t.client, location |-> <<>>, t |-> t, cl |-> none,
             target |-> <<>>, cluster |-> <<>>]
       ELSE IF t.target.ClusterID = 0
       THEN [client |-> t.client, location |-> t.target.Name, t |-> t,
             cl |-> none, target |-> t.target.Name, cluster |-> <<>>]
       ELSE LET g == GetCluster(t.client, t.target.ClusterID, clustersResp)
            IN IF g.ok /\ g.cluster.Name # <<>>
               THEN [client |-> g.client,
                     location |-> ComposeLocation(t.target.Name, g.cluster.Name),
                     t |-> t, cl |-> g,
                     target |-> t.target.Name, cluster |-> g.cluster.Name]
               ELSE [client |-> g.client, location |-> <<>>,
                     t |-> t, cl |-> g,
                     target |-> t.target.Name, cluster |-> <<>>]

\* The location of an application's records: what the block that resolves
\* the deployment target and its cluster leaves in clusterName. The result
\* also carries the client after the lookups and the requests they issued.
ResolveLocation(c, targetID, targetsResp, clustersResp) ==
    LET t == GetDeploymentTarget(c, targetID, targetsResp)
        none == [requests |-> 0, failed |-> 0]
    IN IF ~t.ok \/ t.target.Name = <<>>
       THEN [client |-> t.client, location |-> targetID, t |-> t, cl |-> none,
             target |-> <<>>, cluster |-> <<>>]
       ELSE IF t.target.ClusterID = 0
       THEN [client |-> t.client, location |-> t.target.Name, t |-> t,
             cl |-> none, target |-> t.target.Name, cluster |-> <<>>]
       ELSE LET g == GetCluster(t.client, t.target.ClusterID, clustersResp)
            IN IF g.ok /\ g.cluster.Name # <<>>
               THEN [client |-> g.client,
                     location |-> ComposeLocation(t.target.Name, g.cluster.Name),
                     t |-> t, cl |-> g,
                     target |-> t.target.Name, cluster |-> g.cluster.Name]
               ELSE [client |-> g.client, location |-> t.target.Name,
                     t |-> t, cl |-> g,
                     target |-> t.target.Name, cluster |-> <<>>]

\* CPUMillis rounding to the nearest millicore
CPUMillisRounded(service) == (service.CPUCores * 1000 + 5000) \div 10000

\* int64(service.CPUCores * 1000): CPUCores is held in 1/10000 of a core.
\* The services of the model declare binary fractions of a core, for which
\* the float64 product is exact.
CPUMillis(service) == (service.CPUCores * 1000) \div 10000

\* ServiceMetrics reading the autoscaling bounds without testing Enabled
ServiceMetricsEnabledIgnored(appName, location, service) ==
    LET declared == ~service.Autoscaling.isNil
        minReplicas == IF declared THEN service.Autoscaling.MinInstances
                       ELSE service.Instances
        maxReplicas == IF declared THEN service.Autoscaling.MaxInstances
                       ELSE service.Instances
        cpuMillis == CPUMillis(service)
        memoryBytes == service.RAMMegabytes * 1024 * 1024
    IN [Name |-> appName \o <<"-">> \o service.Name,
        Namespace |-> location,
        Type |-> "Deployment",
        CurrentReplicas |-> service.Instances,
        DesiredReplicas |-> minReplicas,
        MaxReplicas |-> maxReplicas,
        Usage |-> ZeroResources,
        Requests |-> ResourceMetrics(cpuMillis * service.Instances,
                                     memoryBytes * service.Instances),
        MaxRequests |-> ResourceMetrics(cpuMillis * maxReplicas,
                                        memoryBytes * maxReplicas)]

\* The record of one service of an application
ServiceMetrics(appName, location, service) ==
    LET enabled == ~service.Autoscaling.isNil /\ service.Autoscaling.Enabled
        minReplicas == IF enabled THEN service.Autoscaling.MinInstances
                       ELSE service.Instances
        maxReplicas == IF enabled THEN service.Autoscaling.MaxInstances
                       ELSE service.Instances
        cpuMillis == CPUMillis(service)
        memoryBytes == service.RAMMegabytes * 1024 * 1024
    IN [Name |-> appName \o <<"-">> \o service.Name,
        Namespace |-> location,
        Type |-> "Deployment",
        CurrentReplicas |-> service.Instances,
        DesiredReplicas |-> minReplicas,
        MaxReplicas |-> maxReplicas,
        Usage |-> ZeroResources,
        Requests |-> ResourceMetrics(cpuMillis * service.Instances,
                                     memoryBytes * service.Instances),
        MaxRequests |-> ResourceMetrics(cpuMillis * maxReplicas,
                                        memoryBytes * maxReplicas)]

----------------------------------------------------------------------------
(* Aggregation: printResults *)

\* SelectedPair without the test MaxReplicas > DesiredReplicas
SelectedPairAlwaysMax(dm, outputType) ==
    IF outputType = OutputTypeUsage THEN dm.Usage
    ELSE IF outputType = OutputTypeRequests THEN dm.Requests
    ELSE dm.MaxRequests

\* The CPU/memory pair the second switch on outputType selects for a record
SelectedPair(dm, outputType) ==
    IF outputType = OutputTypeUsage THEN dm.Usage
    ELSE IF outputType = OutputTypeRequests THEN dm.Requests
    ELSE IF outputType = OutputTypeMaxRequests
    THEN IF dm.MaxReplicas > dm.DesiredReplicas THEN dm.MaxRequests
         ELSE dm.Requests
    ELSE ZeroResources

\* PrintLoop adding to the totals only when the row is written
RECURSIVE PrintLoopRowsOnly(_, _, _, _)
PrintLoopRowsOnly(ds, outputType, totalOnly, acc) ==
    IF ds = <<>> THEN acc
    ELSE LET sel == SelectedPair(Head(ds), outputType)
             acc2 == IF totalOnly THEN acc
                     ELSE [rows |-> Append(acc.rows, sel),
                           totalCPU |-> acc.totalCPU + sel.CPU,
                           totalMemory |-> acc.totalMemory + sel.Memory]
         IN PrintLoopRowsOnly(Tail(ds), outputType, totalOnly, acc2)

\* The loop over the records: rows are written unless totalOnly, the totals
\* are added to for every record.
RECURSIVE PrintLoop(_, _, _, _)
PrintLoop(ds, outputType, totalOnly, acc) ==
    IF ds = <<>> THEN acc
    ELSE LET sel == SelectedPair(Head(ds), outputType)
             acc2 == [rows |-> IF totalOnly THEN acc.rows
                               ELSE Append(acc.rows, sel),
                      totalCPU |-> acc.totalCPU + sel.CPU,
                      totalMemory |-> acc.totalMemory + sel.Memory]
         IN PrintLoop(Tail(ds), outputType, totalOnly, acc2)

NoOutput ==
    [what |-> "nothing", outputType |-> <<>>, totalOnly |-> FALSE,
     rows |-> <<>>, totalCPU |-> 0, totalMemory |-> 0]

printResults(ds, outputType, usePorter, totalOnly) ==
    IF Len(ds) = 0
    THEN [NoOutput EXCEPT !.what = "No deployments found",
                          !.outputType = outputType, !.totalOnly = totalOnly]
    ELSE LET acc == PrintLoop(ds, outputType, totalOnly,
                              [rows |-> <<>>, totalCPU |-> 0, totalMemory |-> 0])
         IN [what |-> "table", outputType |-> outputType,
             totalOnly |-> totalOnly, rows |-> acc.rows,
             totalCPU |-> acc.totalCPU, totalMemory |-> acc.totalMemory]

----------------------------------------------------------------------------
(* What the API server and the Porter API can answer *)

DeploymentName == <<"a">>
Namespace == <<"n">>

\* Containers: CPU request in millicores, memory request in bytes; a
\* container that declares no request has the zero quantity.
ContainerA == ResourceMetrics(100, 64)
ContainerB == ResourceMetrics(255, 128)
ContainerNoRequests == ResourceMetrics(0, 0)

PodA == <<ContainerA>>
PodB == <<ContainerB, ContainerNoRequests>>

HPA(targetName, targetKind, maxReplicas) ==
    [targetName |-> targetName, targetKind |-> targetKind,
     maxReplicas |-> maxReplicas]

HPALists ==
    { <<>>,
      <<HPA(<<"b">>, "Deployment", 4), HPA(<<"a">>, "Deployment", 3)>>,
      <<HPA(<<"a">>, "Deployment", 1), HPA(<<"a">>, "Deployment", 3)>>,
      <<HPA(<<"a">>, "StatefulSet", 4)>> }

\* What the API server answers to the calls of getDeploymentMetrics
DeploymentAnswer(sr, status, pods, podsErr, metricsErr, hpaErr, hpas) ==
    [getErr |-> FALSE, specReplicas |-> sr, statusReplicas |-> status,
     podsErr |-> podsErr, pods |-> pods, metricsErr |-> metricsErr,
     podMetrics |-> IF pods = <<>> THEN <<>>
                    ELSE << <<ResourceMetrics(30, 16)>> >>,
     hpaErr |-> hpaErr, hpas |-> hpas]

DeploymentAnswers ==
    \* two replicas, both pods listed: every HPA list, and its failure
    { DeploymentAnswer(Ptr(2), 2, <<PodA, PodB>>, FALSE, FALSE, he, hl) :
         he \in BOOLEAN, hl \in HPALists }
    \cup
    \* the status counts a replica whose pod is not listed; no pod is listed;
    \* the deployment declares no replica count
    { DeploymentAnswer(x.sr, x.status, x.pods, FALSE, FALSE, FALSE, hl) :
         x \in { [sr |-> Ptr(2), status |-> 3, pods |-> <<PodA, PodB>>],
                 [sr |-> Ptr(2), status |-> 2, pods |-> <<>>],
                 [sr |-> NilPtr, status |-> 2, pods |-> <<PodA, PodB>>] },
         hl \in { <<>>,
                  <<HPA(<<"b">>, "Deployment", 4),
                    HPA(<<"a">>, "Deployment", 3)>> } }
    \cup
    \* the pod metrics list fails (and the HPA list with it); the pod list
    \* fails; the Get fails
    { DeploymentAnswer(Ptr(2), 2, <<PodA, PodB>>, FALSE, TRUE, FALSE, <<>>),
      DeploymentAnswer(Ptr(2), 2, <<PodA, PodB>>, FALSE, TRUE, TRUE,
                       <<HPA(<<"a">>, "Deployment", 3)>>),
      DeploymentAnswer(Ptr(2), 2, <<PodA, PodB>>, TRUE, FALSE, FALSE, <<>>),
      [DeploymentAnswer(NilPtr, 0, <<>>, FALSE, FALSE, FALSE, <<>>)
          EXCEPT !.getErr = TRUE] }

ActiveJob(podsErr) ==
    [podsErr |-> podsErr, podMetrics |-> << <<ResourceMetrics(20, 8)>> >>]

CronJobAnswer(completions, parallelism, active) ==
    [getErr |-> FALSE, completions |-> completions, parallelism |-> parallelism,
     containers |-> <<ContainerA, ContainerB>>, active |-> active,
     hpas |-> <<>>]

CronJobAnswers ==
    { CronJobAnswer(cp.c, cp.p, ac) :
         cp \in { [c |-> Ptr(3), p |-> Ptr(2)], [c |-> NilPtr, p |-> Ptr(2)],
                  [c |-> NilPtr, p |-> NilPtr] },
         ac \in { <<>>, <<ActiveJob(FALSE)>> } }
    \cup
    { CronJobAnswer(Ptr(3), Ptr(2), <<ActiveJob(FALSE), ActiveJob(TRUE)>>),
      [CronJobAnswer(NilPtr, NilPtr, <<>>) EXCEPT !.getErr = TRUE] }
    \cup
    \* HPAs of the namespace that carry the CronJob's name
    { [CronJobAnswer(NilPtr, Ptr(2), <<ActiveJob(FALSE)>>) EXCEPT !.hpas = hl] :
         hl \in { <<HPA(<<"a">>, "Deployment", 3)>>,
                  <<HPA(<<"a">>, "CronJob", 5)>> } }

\* The deployment-target and cluster catalogs of the Porter project
Target(id, name, clusterID) == [ID |-> id, Name |-> name, ClusterID |-> clusterID]
Cluster(id, name) == [ID |-> id, Name |-> name]

TargetCatalog ==
    << Target(<<"1">>, <<"d">>, 1),
       Target(<<"2">>, <<"p", "-", "d">>, 1),
       Target(<<"3">>, <<"d">>, 2),
       Target(<<"4">>, <<"d">>, 0),
       Target(<<"5">>, <<"d">>, 7) >>

ClusterCatalog == << Cluster(1, <<"p">>), Cluster(2, <<>>) >>

\* Identifiers an application can carry: those of the catalog and one absent
TargetIDs == {<<"1">>, <<"2">>, <<"3">>, <<"4">>, <<"5">>, <<"9">>}

\* The outcomes of doAPIRequest: an error with nothing decoded, an error
\* after the body was decoded in part, the catalog
Responses(catalog) == { [err |-> TRUE, items |-> <<>>],
                        [err |-> TRUE, items |-> SubSeq(catalog, 1, 1)],
                        [err |-> FALSE, items |-> catalog] }

Autoscaling(enabled, min, max) ==
    [isNil |-> FALSE, Enabled |-> enabled, MinInstances |-> min,
     MaxInstances |-> max]

NoAutoscaling ==
    [isNil |-> TRUE, Enabled |-> FALSE, MinInstances |-> 0, MaxInstances |-> 0]

Service(name, cores, ram, instances, autoscaling) ==
    [Name |-> name, CPUCores |-> cores, RAMMegabytes |-> ram,
     Instances |-> instances, Autoscaling |-> autoscaling]

\* CPUCores in 1/10000 core: 0.5 cores, and 0.0625 cores (62.5 millicores)
ServiceFixed == Service(<<"w">>, 5000, 64, 2, NoAutoscaling)
ServiceScaled == Service(<<"w">>, 625, 32, 2, Autoscaling(TRUE, 1, 3))
ServiceDisabled == Service(<<"x">>, 5000, 64, 2, Autoscaling(FALSE, 1, 3))
ServicePinned == Service(<<"w">>, 625, 32, 1, Autoscaling(TRUE, 2, 2))

ServiceLists ==
    { <<>>, <<ServiceFixed>>, <<ServiceScaled, ServiceDisabled>>,
      <<ServicePinned>> }

\* The applications of the project, in the order ListApplications gives them
AppNames == << <<"a">>, <<"b">>, <<"c">>, <<"d">>, <<"e">> >>

RECURSIVE AppList(_)
AppList(n) == IF n = 0 THEN <<>> ELSE Append(AppList(n - 1), AppNames[n])

\* The project's applications: with the application named "a", or without
AppLists == { AppList(n) : n \in 0..MaxApps }
            \cup { Tail(AppList(n + 1)) : n \in 1..MaxApps }

----------------------------------------------------------------------------
(* The state machine of one run: runCLI *)

Flags == [usePorter : BOOLEAN, named : BOOLEAN, includeCronJobs : BOOLEAN]

NoCalls == [targets |-> 0, targetsFailed |-> 0, clusters |-> 0, clustersFailed |-> 0]

NoResult == [value |-> 0, err |-> FALSE, undefined |-> FALSE]

NoConv == [op |-> "none", value |-> <<>>, isCPU |-> FALSE, quantity |-> 0,
           fpLow |-> FALSE, tieUp |-> FALSE, text |-> <<>>,
           result |-> NoResult, step |-> 0]

\* A line of stderr: its text, the workload or application it names, and
\* the error it carries
Message(text, subject, cause) ==
    [text |-> text, subject |-> subject, cause |-> cause]

RECURSIVE Warnings(_)
Warnings(texts) ==
    IF texts = <<>> THEN <<>>
    ELSE <<Message(Head(texts), <<>>, "")>> \o Warnings(Tail(texts))

\* The warnings after which a loop goes on to its next item
SkipTexts == { "Warning: Error getting metrics for deployment",
               "Warning: Error getting metrics for cronjob" }

\* The items of the listed deployments and CronJobs gone through so far
Processed ==
    Len(deployments)
    + Cardinality({ k \in DOMAIN stderr : stderr[k].text \in SkipTexts })

\* What the collector saw when it built a record
Origin(src, pods, bound, active, target, cluster, api) ==
    [src |-> src, pods |-> pods, bound |-> bound, active |-> active,
     target |-> target, cluster |-> cluster, api |-> api]

DeploymentOrigin(api) ==
    Origin("deployment", Len(api.pods),
           ~api.hpaErr /\ FirstMatchingHPA(api.hpas, DeploymentName, 1) # 0,
           0, <<>>, <<>>, api)

CronJobOrigin(api) ==
    Origin("cronjob", 0, FALSE, Len(api.active), <<>>, <<>>, api)

Init ==
    /\ pc = "start"
    /\ flags \in Flags
    /\ flags.usePorter => ~flags.includeCronJobs   \* the flag is ignored there
    /\ deployments = <<>>
    /\ origin = <<>>
    /\ client = NewPorterClient
    /\ apps = [list |-> <<>>, i |-> 0]
    /\ calls = NoCalls
    /\ out = NoOutput
    /\ stderr = <<>>
    /\ conv = NoConv

AfterDeployments == IF flags.includeCronJobs THEN "cronjobs" ELSE "print"

\* runCLI, one deployment asked for by name in one namespace: a failed Get and
\* a failed getDeploymentMetrics both end the run with exit status 1.
GetNamedDeployment ==
    /\ pc = "start" /\ ~flags.usePorter /\ flags.named
    /\ \E getErr \in BOOLEAN, api \in DeploymentAnswers :
         LET r == getDeploymentMetrics(Namespace, DeploymentName, api) IN
         IF getErr
         THEN /\ pc' = "exit1"
              /\ stderr' = Append(stderr, Message("Error getting deployment",
                                                  DeploymentName, ""))
              /\ UNCHANGED <<deployments, origin>>
         ELSE IF r.err
         THEN /\ pc' = "exit1"
              /\ stderr' = stderr \o Warnings(r.warnings)
                    \o <<Message("Error getting metrics for deployment",
                                 DeploymentName, r.cause)>>
              /\ UNCHANGED <<deployments, origin>>
         ELSE /\ pc' = AfterDeployments
              /\ stderr' = stderr \o Warnings(r.warnings)
              /\ deployments' = Append(deployments, r.dm)
              /\ origin' = Append(origin, DeploymentOrigin(api))
    /\ UNCHANGED <<flags, client, apps, calls, out, conv>>

\* runCLI, no name given: the deployments of the namespace are listed
ListDeployments ==
    /\ pc = "start" /\ ~flags.usePorter /\ ~flags.named
    /\ \E listErr \in BOOLEAN :
         IF listErr
         THEN /\ pc' = "exit1"
              /\ stderr' = Append(stderr, Message("Error listing deployments",
                                                  <<>>, ""))
         ELSE pc' = "deployments" /\ UNCHANGED stderr
    /\ UNCHANGED <<flags, deployments, origin, client, apps, calls, out, conv>>

\* One iteration of the loop over the listed deployments: a deployment whose
\* metrics fail is skipped with a warning.
CollectDeployment ==
    /\ pc = "deployments"
    /\ Processed < MaxRecords
    /\ \E api \in DeploymentAnswers :
         LET r == getDeploymentMetrics(Namespace, DeploymentName, api) IN
         IF r.err
         THEN /\ stderr' = stderr \o Warnings(r.warnings)
                    \o <<Message("Warning: Error getting metrics for deployment",
                                 DeploymentName, r.cause)>>
              /\ UNCHANGED <<deployments, origin>>
         ELSE /\ stderr' = stderr \o Warnings(r.warnings)
              /\ deployments' = Append(deployments, r.dm)
              /\ origin' = Append(origin, DeploymentOrigin(api))
    /\ UNCHANGED <<pc, flags, client, apps, calls, out, conv>>

EndDeployments ==
    /\ pc = "deployments"
    /\ pc' = AfterDeployments
    /\ UNCHANGED <<flags, deployments, origin, client, apps, calls, out, stderr, conv>>

\* runCLI, one CronJob asked for by name: a failed Get and a failed
\* getCronJobMetrics are warnings, and the run goes on to print.
GetNamedCronJob ==
    /\ pc = "cronjobs" /\ flags.named
    /\ \E getErr \in BOOLEAN, api \in CronJobAnswers :
         LET r == getCronJobMetrics(Namespace, DeploymentName, api) IN
         IF getErr
         THEN /\ stderr' = Append(stderr, Message("Warning: Error getting cronjob",
                                                  DeploymentName, ""))
              /\ UNCHANGED <<deployments, origin>>
         ELSE IF r.err
         THEN /\ stderr' = Append(stderr,
                                  Message("Warning: Error getting metrics for cronjob",
                                          DeploymentName, r.cause))
              /\ UNCHANGED <<deployments, origin>>
         ELSE /\ deployments' = Append(deployments, r.dm)
              /\ origin' = Append(origin, CronJobOrigin(api))
              /\ UNCHANGED stderr
    /\ pc' = "print"
    /\ UNCHANGED <<flags, client, apps, calls, out, conv>>

ListCronJobs ==
    /\ pc = "cronjobs" /\ ~flags.named
    /\ \E listErr \in BOOLEAN :
         IF listErr
         THEN /\ pc' = "exit1"
              /\ stderr' = Append(stderr, Message("Error listing cronjobs",
                                                  <<>>, ""))
         ELSE pc' = "cronjobs-loop" /\ UNCHANGED stderr
    /\ UNCHANGED <<flags, deployments, origin, client, apps, calls, out, conv>>

CollectCronJob ==
    /\ pc = "cronjobs-loop"
    /\ Processed < MaxRecords
    /\ \E api \in CronJobAnswers :
         LET r == getCronJobMetrics(Namespace, DeploymentName, api) IN
         IF r.err
         THEN /\ stderr' = Append(stderr,
                                  Message("Warning: Error getting metrics for cronjob",
                                          DeploymentName, r.cause))
              /\ UNCHANGED <<deployments, origin>>
         ELSE /\ deployments' = Append(deployments, r.dm)
              /\ origin' = Append(origin, CronJobOrigin(api))
              /\ UNCHANGED stderr
    /\ UNCHANGED <<pc, flags, client, apps, calls, out, conv>>

EndCronJobs ==
    /\ pc = "cronjobs-loop"
    /\ pc' = "print"
    /\ UNCHANGED <<flags, deployments, origin, client, apps, calls, out, stderr, conv>>

\* getPorterApplicationMetrics, up to its loop: ListApplications
ListApplications ==
    /\ pc = "start" /\ flags.usePorter
    /\ \E listErr \in BOOLEAN, list \in AppLists :
         IF listErr
         THEN /\ pc' = "exit1"
              /\ stderr' = Append(stderr,
                                  Message("Error getting Porter application metrics",
                                          <<>>, "failed to list applications"))
              /\ UNCHANGED apps
         ELSE /\ pc' = "applications"
              /\ apps' = [list |-> list, i |-> 1]
              /\ UNCHANGED stderr
    /\ UNCHANGED <<flags, deployments, origin, client, calls, out, conv>>

\* The records of the services of one application, in order
RECURSIVE ServiceRecords(_, _, _)
ServiceRecords(appName, location, services) ==
    IF services = <<>> THEN <<>>
    ELSE <<ServiceMetrics(appName, location, Head(services))>>
         \o ServiceRecords(appName, location, Tail(services))

ServiceOrigins(appName, loc, targetID, services) ==
    [k \in 1..Len(services) |->
        Origin("porter", 0,
               ~services[k].Autoscaling.isNil /\ services[k].Autoscaling.Enabled,
               0, loc.target, loc.cluster,
               [app |-> appName, targetID |-> targetID, service |-> services[k],
                services |-> services, index |-> k,
                targetsFailed |-> loc.t.failed = 1,
                clustersFailed |-> loc.cl.failed = 1,
                targetServed |-> loc.t.requests = 0,
                clusterID |-> IF loc.t.ok THEN loc.t.target.ClusterID ELSE 0,
                clusterServed |-> loc.cl.requests = 0])]

\* One iteration of the loop of getPorterApplicationMetrics: the name filter,
\* GetApplication, the resolution of the location, and the services.
ProcessApplication ==
    /\ pc = "applications"
    /\ apps.i <= Len(apps.list)
    /\ apps' = [apps EXCEPT !.i = apps.i + 1]
    /\ LET name == apps.list[apps.i] IN
       IF flags.named /\ name # DeploymentName
       THEN UNCHANGED <<deployments, origin, client, calls, stderr>>
       ELSE \E getErr \in BOOLEAN :
            IF getErr
            THEN /\ stderr' = Append(stderr,
                                     Message("Warning: Error getting application",
                                             name, ""))
                 /\ UNCHANGED <<deployments, origin, client, calls>>
            ELSE \E targetID \in TargetIDs, services \in ServiceLists,
                    targetsResp \in Responses(TargetCatalog),
                    clustersResp \in Responses(ClusterCatalog) :
                 LET loc == ResolveLocation(client, targetID, targetsResp,
                                            clustersResp)
                 IN /\ client' = loc.client
                    /\ calls' =
                         [targets |-> calls.targets + loc.t.requests,
                          targetsFailed |-> calls.targetsFailed + loc.t.failed,
                          clusters |-> calls.clusters + loc.cl.requests,
                          clustersFailed |-> calls.clustersFailed + loc.cl.failed]
                    /\ deployments' = deployments
                          \o ServiceRecords(name, loc.location, services)
                    /\ origin' = origin
                          \o ServiceOrigins(name, loc, targetID, services)
                    /\ UNCHANGED stderr
    /\ UNCHANGED <<pc, flags, out, conv>>

EndApplications ==
    /\ pc = "applications"
    /\ apps.i > Len(apps.list)
    /\ pc' = "print"
    /\ UNCHANGED <<flags, deployments, origin, client, apps, calls, out, stderr, conv>>

\* runCLI's last statement: printResults under the chosen output flags
PrintResults ==
    /\ pc = "print"
    /\ \E outputType \in OutputTypes, totalOnly \in BOOLEAN :
         out' = printResults(deployments, outputType, flags.usePorter, totalOnly)
    /\ pc' = "done"
    /\ UNCHANGED <<flags, deployments, origin, client, apps, calls, stderr, conv>>

Next ==
    \/ GetNamedDeployment
    \/ ListDeployments
    \/ CollectDeployment
    \/ EndDeployments
    \/ GetNamedCronJob
    \/ ListCronJobs
    \/ CollectCronJob
    \/ EndCronJobs
    \/ ListApplications
    \/ ProcessApplication
    \/ EndApplications
    \/ PrintResults

Spec == Init /\ [][Next]_vars

----------------------------------------------------------------------------
(* Unit conversion: characters, and the scanning fmt.Sscanf does *)

DecimalDigits == <<"0", "1", "2", "3", "4", "5", "6", "7", "8", "9">>
LowerCase == <<"a", "b", "c", "d", "e", "f", "g", "h", "i", "j", "k", "l", "m",
               "n", "o", "p", "q", "r", "s", "t", "u", "v", "w", "x", "y", "z">>
UpperCase == <<"A", "B", "C", "D", "E", "F", "G", "H", "I", "J", "K", "L", "M",
               "N", "O", "P", "Q", "R", "S", "T", "U", "V", "W", "X", "Y", "Z">>

Range(f) == { f[i] : i \in DOMAIN f }

DigitSet == Range(DecimalDigits)
DigitValue(c) == (CHOOSE i \in 1..10 : DecimalDigits[i] = c) - 1

\* strings.ToUpper
ToUpper(s) ==
    [i \in 1..Len(s) |->
        IF s[i] \in Range(LowerCase)
        THEN UpperCase[CHOOSE k \in 1..26 : LowerCase[k] = s[i]]
        ELSE s[i]]

\* strings.TrimSpace
RECURSIVE TrimLeft(_)
TrimLeft(s) == IF s # <<>> /\ Head(s) = " " THEN TrimLeft(Tail(s)) ELSE s

RECURSIVE TrimRight(_)
TrimRight(s) ==
    IF s # <<>> /\ s[Len(s)] = " " THEN TrimRight(SubSeq(s, 1, Len(s) - 1))
    ELSE s

TrimSpace(s) == TrimRight(TrimLeft(s))

\* strings.HasSuffix, strings.Contains
HasSuffix(s, suffix) ==
    Len(s) >= Len(suffix)
    /\ SubSeq(s, Len(s) - Len(suffix) + 1, Len(s)) = suffix

Contains(s, sub) ==
    \E i \in 1..(Len(s) + 1) :
        i + Len(sub) - 1 <= Len(s) /\ SubSeq(s, i, i + Len(sub) - 1) = sub

\* fmt's ss.accept: the position after s[p] when it is one of ok, else p
Accept(s, p, ok) == IF p <= Len(s) /\ s[p] \in ok THEN p + 1 ELSE p

RECURSIVE AcceptAll(_, _, _)
AcceptAll(s, p, ok) ==
    IF p <= Len(s) /\ s[p] \in ok THEN AcceptAll(s, p + 1, ok) ELSE p

\* The value of a run of decimal digits
RECURSIVE DigitsValue(_)
DigitsValue(ds) ==
    IF ds = <<>> THEN 0
    ELSE DigitsValue(SubSeq(ds, 1, Len(ds) - 1)) * 10 + DigitValue(ds[Len(ds)])

RECURSIVE Pow10(_)
Pow10(k) == IF k = 0 THEN 1 ELSE 10 * Pow10(k - 1)

\* The %d verb at position p: an optional sign, then digits (the underscore
\* is scanned as a digit and then refused by strconv.ParseInt). next is the
\* position after the token.
ScanInt(s, p) ==
    LET p1 == Accept(s, p, {"+", "-"})
        p2 == AcceptAll(s, p1, DigitSet \cup {"_"})
        tok == SubSeq(s, p1, p2 - 1)
    IN IF p2 = p1 \/ "_" \in Range(tok)
       THEN [ok |-> FALSE, val |-> 0, next |-> p2]
       ELSE [ok |-> TRUE,
             val |-> IF p1 > p /\ s[p] = "-" THEN 0 - DigitsValue(tok)
                     ELSE DigitsValue(tok),
             next |-> p2]

\* Successive ss.accept calls joined by &&: the position reached, and whether
\* every one of them accepted. What was accepted stays consumed.
RECURSIVE AcceptWord(_, _, _)
AcceptWord(s, p, sets) ==
    IF sets = <<>> THEN [pos |-> p, full |-> TRUE]
    ELSE IF Accept(s, p, Head(sets)) = p THEN [pos |-> p, full |-> FALSE]
    ELSE AcceptWord(s, p + 1, Tail(sets))

FloatDigitSet(hex) ==
    IF hex THEN DigitSet \cup {"a", "b", "c", "d", "e", "f",
                               "A", "B", "C", "D", "E", "F", "_"}
    ELSE DigitSet \cup {"_"}

\* fmt's ss.floatToken from position p on: the position after the token.
\* Its steps in order: NaN, sign, Inf, hexadecimal prefix, digits, point and
\* fraction, exponent.
FloatExponent(s, p, hex) ==
    IF Accept(s, p, IF hex THEN {"p", "P"} ELSE {"e", "E", "p", "P"}) > p
    THEN AcceptAll(s, Accept(s, p + 1, {"+", "-"}), DigitSet \cup {"_"})
    ELSE p

FloatFraction(s, p, hex) ==
    FloatExponent(s,
                  IF Accept(s, p, {"."}) > p
                  THEN AcceptAll(s, p + 1, FloatDigitSet(hex)) ELSE p,
                  hex)

FloatMantissa(s, p) ==
    LET prefix == AcceptWord(s, p, <<{"0"}, {"x", "X"}>>)
    IN FloatFraction(s, AcceptAll(s, prefix.pos, FloatDigitSet(prefix.full)),
                     prefix.full)

FloatInf(s, p) ==
    LET inf == AcceptWord(s, p, <<{"i", "I"}, {"n", "N"}, {"f", "F"}>>)
    IN IF inf.full THEN inf.pos ELSE FloatMantissa(s, inf.pos)

FloatTokenEnd(s, p) ==
    LET nan == AcceptWord(s, p, <<{"n", "N"}, {"a", "A"}, {"n", "N"}>>)
    IN IF nan.full THEN nan.pos
       ELSE FloatInf(s, Accept(s, nan.pos, {"+", "-"}))

\* strconv.ParseFloat on a token, for the decimal forms: an optional sign,
\* digits with an optional point, at least one digit. The value is the
\* fraction neg * num / den, den a power of ten. "nan" and "inf" parse, to a
\* value no integer conversion is defined on (special). Tokens with an
\* exponent, a hexadecimal mantissa or an underscore are refused here.
ParseFloat(tok) ==
    LET low == [i \in 1..Len(tok) |->
                   IF tok[i] \in Range(UpperCase)
                   THEN LowerCase[CHOOSE k \in 1..26 : UpperCase[k] = tok[i]]
                   ELSE tok[i]]
        p1 == Accept(tok, 1, {"+", "-"})
        p2 == AcceptAll(tok, p1, DigitSet)
        p3 == IF Accept(tok, p2, {"."}) > p2
              THEN AcceptAll(tok, p2 + 1, DigitSet) ELSE p2
        int == SubSeq(tok, p1, p2 - 1)
        frac == IF p3 > p2 THEN SubSeq(tok, p2 + 1, p3 - 1) ELSE <<>>
        bad == [ok |-> FALSE, special |-> FALSE, neg |-> FALSE,
                num |-> 0, den |-> 1]
    IN IF low \in { <<"n", "a", "n">>, <<"i", "n", "f">>,
                    <<"+", "i", "n", "f">>, <<"-", "i", "n", "f">> }
       THEN [bad EXCEPT !.ok = TRUE, !.special = TRUE]
       ELSE IF p3 <= Len(tok) \/ (int = <<>> /\ frac = <<>>) THEN bad
       ELSE [ok |-> TRUE, special |-> FALSE,
             neg |-> (p1 > 1 /\ tok[1] = "-"),
             num |-> DigitsValue(int \o frac), den |-> Pow10(Len(frac))]

\* The %f verb at position p
ScanFloat(s, p) ==
    LET next == FloatTokenEnd(s, p)
        f == ParseFloat(SubSeq(s, p, next - 1))
    IN [ok |-> f.ok, f |-> f, next |-> next]

\* The literal characters of a format after its verb: each must be the next
\* character of the input; input left over after the format is not an error.
MatchLiteral(s, p, lit) ==
    p + Len(lit) - 1 <= Len(s) /\ SubSeq(s, p, p + Len(lit) - 1) = lit

RECURSIVE GCD(_, _)
GCD(a, b) == IF b = 0 THEN a ELSE GCD(b, a % b)

\* The fraction num/den times m, in lowest terms
MulFraction(fr, m) ==
    LET n == fr.num * (m \div GCD(m, fr.den))
        d == fr.den \div GCD(m, fr.den)
        g == IF n = 0 THEN d ELSE GCD(n, d)
    IN [fr EXCEPT !.num = n \div g, !.den = d \div g]

RECURSIVE MulAll(_, _)
MulAll(fr, ms) ==
    IF ms = <<>> THEN fr ELSE MulAll(MulFraction(fr, Head(ms)), Tail(ms))

\* A decimal fraction is a float64 exactly when its denominator in lowest
\* terms is a power of two (the values here are short).
RECURSIVE IsPowerOfTwo(_)
IsPowerOfTwo(d) == d = 1 \/ (d % 2 = 0 /\ IsPowerOfTwo(d \div 2))

IsDyadic(f) == IsPowerOfTwo(MulFraction(f, 1).den)

\* int64(f * m1 * m2 ...): the float64 product, truncated toward zero. When
\* f is not a float64 and the exact product is a whole number, the float64
\* product can lie just below it, and the conversion then gives one less
\* (fpLow); the product by powers of two is exact.
FloatToInt64(f, ms, binary, fpLow) ==
    LET prod == MulAll(f, ms)
        mag == prod.num \div prod.den
        low == fpLow /\ ~binary /\ ~IsDyadic(f) /\ prod.den = 1 /\ mag > 0
        m == IF low THEN mag - 1 ELSE mag
    IN IF f.neg THEN 0 - m ELSE m

----------------------------------------------------------------------------
(* Unit conversion: parseResourceValue *)

Result(value, err) == [value |-> value, err |-> err, undefined |-> FALSE]

\* fmt.Sscanf(value, "%d" + lit, &n) and what the branch returns with it
ParseIntBranch(value, lit) ==
    LET r == ScanInt(value, 1) IN
    IF ~r.ok THEN Result(0, TRUE)
    ELSE Result(r.val, ~MatchLiteral(value, r.next, lit))

\* fmt.Sscanf(value, "%f" + lit, &f) and what the branch returns with it:
\* int64 of f times the multipliers
ParseFloatBranch(value, lit, ms, binary, fpLow) ==
    LET r == ScanFloat(value, 1) IN
    IF ~r.ok THEN Result(0, TRUE)
    ELSE IF r.f.special
    THEN [value |-> 0, err |-> ~MatchLiteral(value, r.next, lit),
          undefined |-> TRUE]
    ELSE Result(FloatToInt64(r.f, ms, binary, fpLow),
                ~MatchLiteral(value, r.next, lit))

parseResourceValue(value, isCPU, fpLow) ==
    IF value = <<>> THEN Result(0, FALSE)
    ELSE
    LET v == TrimSpace(value)
        u == ToUpper(v)
    IN IF isCPU
       THEN IF HasSuffix(v, <<"m">>) THEN ParseIntBranch(v, <<"m">>)
            ELSE IF Contains(v, <<"c", "o", "r", "e">>)
            THEN ParseFloatBranch(v, <<>>, <<1000>>, FALSE, fpLow)
            ELSE ParseFloatBranch(v, <<>>, <<1000>>, FALSE, fpLow)
       ELSE IF HasSuffix(u, <<"G", "I">>)
            THEN ParseFloatBranch(u, <<"G", "I">>, <<1024, 1024, 1024>>, TRUE, fpLow)
            ELSE IF HasSuffix(u, <<"G">>)
            THEN ParseFloatBranch(u, <<"G">>, <<1000, 1000, 1000>>, FALSE, fpLow)
            ELSE IF HasSuffix(u, <<"M", "I">>)
            THEN ParseFloatBranch(u, <<"M", "I">>, <<1024, 1024>>, TRUE, fpLow)
            ELSE IF HasSuffix(u, <<"M">>)
            THEN ParseFloatBranch(u, <<"M">>, <<1000, 1000>>, FALSE, fpLow)
            ELSE IF HasSuffix(u, <<"K", "I">>)
            THEN ParseFloatBranch(u, <<"K", "I">>, <<1024>>, TRUE, fpLow)
            ELSE IF HasSuffix(u, <<"K">>)
            THEN ParseFloatBranch(u, <<"K">>, <<1000>>, FALSE, fpLow)
            ELSE ParseIntBranch(u, <<>>)

----------------------------------------------------------------------------
(* Unit conversion: formatCPU and formatMemory *)

\* Sprintf("%d")
RECURSIVE NatToStr(_)
NatToStr(n) ==
    IF n < 10 THEN <<DecimalDigits[n + 1]>>
    ELSE Append(NatToStr(n \div 10), DecimalDigits[(n % 10) + 1])

IntToStr(n) == IF n < 0 THEN <<"-">> \o NatToStr(0 - n) ELSE NatToStr(n)

\* Sprintf("%.2f") of whole + hundredths/100, hundredths in 0..100
Fixed2(whole, hundredths) ==
    LET w == IF hundredths = 100 THEN whole + 1 ELSE whole
        h == IF hundredths = 100 THEN 0 ELSE hundredths
    IN NatToStr(w) \o <<".", DecimalDigits[(h \div 10) + 1],
                        DecimalDigits[(h % 10) + 1]>>

\* formatCPU taking the cores form only above 1000 millicores
formatCPUAboveThreshold(milliCores, tieUp) ==
    IF milliCores > 1000
    THEN Fixed2(milliCores \div 1000, (milliCores % 1000) \div 10)
         \o <<" ", "c", "o", "r", "e", "s">>
    ELSE IntToStr(milliCores) \o <<"m">>

\* formatCPU. float64(milliCores)/1000.0 printed with two decimals: the
\* third decimal decides, and when it is 5 the quotient is a float64 only
\* for multiples of 125 (then the tie goes to the even digit); otherwise the
\* float64 nearest to the quotient lies above or below the tie (tieUp).
formatCPU(milliCores, tieUp) ==
    IF milliCores >= 1000
    THEN LET whole == milliCores \div 1000
             hund == (milliCores % 1000) \div 10
             last == milliCores % 10
             up == \/ last > 5
                   \/ /\ last = 5
                      /\ IF milliCores % 125 = 0 THEN hund % 2 = 1 ELSE tieUp
         IN Fixed2(whole, IF up THEN hund + 1 ELSE hund)
            \o <<" ", "c", "o", "r", "e", "s">>
    ELSE IntToStr(milliCores) \o <<"m">>

KB == 1024
MB == 1024 * KB
GB == 1024 * MB

\* bytes/unit printed with two decimals, unit a power of 1024. The division
\* is exact in float64, so the printed digits are those of the exact
\* quotient rounded to the nearest hundredth, a tie going to the even digit.
\* twice is floor(200 * rem / unit), computed without leaving 32 bits.
FixedQuotient(bytes, unit) ==
    LET whole == bytes \div unit
        rem == bytes % unit
        k == IF unit > MB THEN unit \div MB ELSE 1
        base == IF unit > MB THEN MB ELSE unit
        t == (rem \div base) * 200 + ((rem % base) * 200) \div base
        twice == IF unit > MB THEN t \div k ELSE (rem * 200) \div unit
        exact == IF unit > MB
                 THEN ((rem % base) * 200) % base = 0 /\ t % k = 0
                 ELSE (rem * 200) % unit = 0
        down == twice \div 2
        hund == IF twice % 2 = 0 THEN down
                ELSE IF exact /\ down % 2 = 0 THEN down
                ELSE down + 1
    IN Fixed2(whole, hund)

\* formatMemory with units of 1000, 1000^2, 1000^3 bytes
formatMemoryDecimalUnits(bytes) ==
    IF bytes >= 1000000000
    THEN Fixed2(bytes \div 1000000000, (bytes % 1000000000) \div 10000000)
         \o <<" ", "G", "B">>
    ELSE IntToStr(bytes) \o <<" ", "B">>

formatMemory(bytes) ==
    IF bytes >= GB THEN FixedQuotient(bytes, GB) \o <<" ", "G", "B">>
    ELSE IF bytes >= MB THEN FixedQuotient(bytes, MB) \o <<" ", "M", "B">>
    ELSE IF bytes >= KB THEN FixedQuotient(bytes, KB) \o <<" ", "K", "B">>
    ELSE IntToStr(bytes) \o <<" ", "B">>

----------------------------------------------------------------------------
(* The conversion functions applied to drawn inputs *)

MaxLen == 3

ConvAlphabet == {"0", "1", ".", "m", "K", "i", " ", "z"}

ParseInputs ==
    UNION { [1..n -> ConvAlphabet] : n \in 0..MaxLen }
    \cup
    { <<"n","o","t","a","n","u","m","b","e","r">>, <<"x","y","z","1","2","3">>,
      <<"n","o","t","a","c","p","u">>, <<"i","n","v","a","l","i","d">>,
      <<"2"," ","c","o","r","e","s">>, <<"1",".","5"," ","c","o","r","e","s">>,
      <<"1",".","5">>, <<"2",".","0","1">>, <<"5","0","0","m">>,
      <<"2","5","6","M","i">>, <<"2","5","6","m","i">>, <<"5","1","2","M">>,
      <<"1","G","i">>, <<"0",".","5","G","i">>, <<"1","G">>,
      <<"1","0","0","K","i">>, <<"1","0","4","8","5","7","6">>,
      <<"n","a","n">>, <<"1","2","a","b","c">>, <<"2"," ","c","o","r","e","z">> }

CPUQuantities ==
    {0, 5, 333, 999, 1000, 1004, 1005, 1125, 1135, 1375, 1500, 2010, 2999}

MemoryQuantities ==
    {0, 500, 1023, 1024, 1152, 2048, 1048575, 1048576, 1572864, 1073741823,
     1073741824, 1500000000, 1610612736}

\* What float64 arithmetic (IEEE-754 binary64, round to nearest even) gives
\* on the inputs above where it departs from the exact value. 2.01 * 1000 is
\* 2009.9999999999998, which int64 truncates to 2009; every other product
\* of an input above is at or above the exact whole number.
LowCoreProducts == { <<"2", ".", "0", "1">> }

RoundsBelow(value, isCPU) ==
    LET v == TrimSpace(value)
    IN isCPU /\ SubSeq(v, 1, FloatTokenEnd(v, 1) - 1) \in LowCoreProducts

\* 1135/1000.0 is above 1.135 and prints as 1.14; 1005/1000.0 is below
\* 1.005 and prints as 1.00.
TieUpQuantities == {1135}

ConvCases ==
    { [NoConv EXCEPT !.op = "parse", !.value = v, !.isCPU = c] :
         v \in ParseInputs, c \in BOOLEAN }
    \cup
    { [NoConv EXCEPT !.op = "cpu", !.isCPU = TRUE, !.quantity = q] :
         q \in CPUQuantities }
    \cup
    { [NoConv EXCEPT !.op = "memory", !.quantity = q] : q \in MemoryQuantities }

InitConv ==
    /\ pc = "conv"
    /\ flags = [usePorter |-> FALSE, named |-> FALSE, includeCronJobs |-> FALSE]
    /\ deployments = <<>>
    /\ origin = <<>>
    /\ client = NewPorterClient
    /\ apps = [list |-> <<>>, i |-> 0]
    /\ calls = NoCalls
    /\ out = NoOutput
    /\ stderr = <<>>
    /\ conv \in ConvCases

ApplyParse ==
    /\ pc = "conv" /\ conv.op = "parse" /\ conv.step = 0
    /\ LET fpLow == RoundsBelow(conv.value, conv.isCPU) IN
       conv' = [conv EXCEPT
                  !.fpLow = fpLow,
                  !.result = parseResourceValue(conv.value, conv.isCPU, fpLow),
                  !.step = 1]
    /\ UNCHANGED <<pc, flags, deployments, origin, client, apps, calls, out, stderr>>

ApplyFormatCPU ==
    /\ pc = "conv" /\ conv.op = "cpu" /\ conv.step = 0
    /\ LET tieUp == conv.quantity \in TieUpQuantities IN
       conv' = [conv EXCEPT !.tieUp = tieUp,
                            !.text = formatCPU(conv.quantity, tieUp),
                            !.step = 1]
    /\ UNCHANGED <<pc, flags, deployments, origin, client, apps, calls, out, stderr>>

ApplyFormatMemory ==
    /\ pc = "conv" /\ conv.op = "memory" /\ conv.step = 0
    /\ conv' = [conv EXCEPT !.text = formatMemory(conv.quantity), !.step = 1]
    /\ UNCHANGED <<pc, flags, deployments, origin, client, apps, calls, out, stderr>>

\* The formatted text given back to parseResourceValue
ApplyParseBack ==
    /\ pc = "conv" /\ conv.op \in {"cpu", "memory"} /\ conv.step = 1
    /\ LET fpLow == RoundsBelow(conv.text, conv.isCPU) IN
       conv' = [conv EXCEPT
                  !.fpLow = fpLow,
                  !.result = parseResourceValue(conv.text, conv.isCPU, fpLow),
                  !.step = 2]
    /\ UNCHANGED <<pc, flags, deployments, origin, client, apps, calls, out, stderr>>

NextConv ==
    \/ ApplyParse
    \/ ApplyFormatCPU
    \/ ApplyFormatMemory
    \/ ApplyParseBack

SpecConv == InitConv /\ [][NextConv]_vars

----------------------------------------------------------------------------
(* Properties *)

Printed == pc = "done" /\ out.what = "table"

Records == 1..Len(deployments)

Scaled(pair, k) == ResourceMetrics(pair.CPU * k, pair.Memory * k)

Quotient(pair, k) == ResourceMetrics(pair.CPU \div k, pair.Memory \div k)

\* C1: in max-requests mode printResults selects the requests pair of every
\* record whose maxReplicas is not greater than its desiredReplicas, for the
\* row and for the total, whatever the record's maxRequests field holds.
C1_MaxRequestsFallback ==
    (Printed /\ out.outputType = OutputTypeMaxRequests) =>
        /\ ~out.totalOnly =>
              \A i \in Records :
                 deployments[i].MaxReplicas <= deployments[i].DesiredReplicas
                    => out.rows[i] = deployments[i].Requests
        /\ (\A i \in Records :
               deployments[i].MaxReplicas <= deployments[i].DesiredReplicas)
              => /\ out.totalCPU =
                      SumCPU([i \in Records |-> deployments[i].Requests])
                 /\ out.totalMemory =
                      SumMemory([i \in Records |-> deployments[i].Requests])

\* C1 witness: a table in max-requests mode with its rows, where every record
\* has maxReplicas <= desiredReplicas, one has maxReplicas < desiredReplicas,
\* and one holds a maxRequests different from its requests.
C1_Witness ==
    /\ Printed /\ out.outputType = OutputTypeMaxRequests /\ ~out.totalOnly
    /\ \A i \in Records :
          deployments[i].MaxReplicas <= deployments[i].DesiredReplicas
    /\ \E i \in Records :
          deployments[i].MaxReplicas < deployments[i].DesiredReplicas
    /\ \E i \in Records :
          /\ deployments[i].MaxRequests # deployments[i].Requests
          /\ out.rows[i] = deployments[i].Requests

\* C2: a record a collector built for a workload without autoscaling (a
\* deployment no HPA matched, a CronJob, a Porter service whose autoscaling
\* is absent or disabled) is reported in max-requests mode with its own
\* requests pair.
C2_NoAutoscalingReportsRequests ==
    (Printed /\ out.outputType = OutputTypeMaxRequests /\ ~out.totalOnly) =>
        \A i \in Records :
           ~origin[i].bound => out.rows[i] = deployments[i].Requests

\* C2 witness: a deployment that no HPA matched, with non-zero requests and
\* a zero maxRequests field, and a CronJob, both reported in max-requests mode.
C2_Witness ==
    /\ Printed /\ out.outputType = OutputTypeMaxRequests /\ ~out.totalOnly
    /\ \E i \in Records :
          /\ origin[i].src = "deployment" /\ ~origin[i].bound
          /\ deployments[i].Requests.CPU > 0
          /\ deployments[i].MaxRequests = ZeroResources
          /\ out.rows[i] = deployments[i].Requests
    /\ \E i \in Records : origin[i].src = "cronjob" /\ ~origin[i].bound

\* The pair the claim C3 names for a record and a valuation mode
C3_ClaimedPair(dm, outputType) ==
    CASE outputType = OutputTypeUsage -> dm.Usage
      [] outputType = OutputTypeRequests -> dm.Requests
      [] outputType = OutputTypeMaxRequests ->
            IF dm.MaxReplicas > dm.DesiredReplicas THEN dm.MaxRequests
            ELSE dm.Requests

\* C3: for a non-empty sequence of records and any mode, the totals of
\* printResults are the componentwise sums of the pairs selected for the
\* mode, with totalOnly set and with it unset.
C3_TotalIsSumOfSelected ==
    (pc = "done" /\ Len(deployments) > 0) =>
        LET sel == [i \in Records |->
                       C3_ClaimedPair(deployments[i], out.outputType)]
        IN /\ out.what = "table"
           /\ out.totalCPU = SumCPU(sel)
           /\ out.totalMemory = SumMemory(sel)

\* C3 witness: a total printed with the rows suppressed, over two records
\* that both contribute to it.
C3_Witness ==
    /\ Printed /\ out.totalOnly /\ out.rows = <<>>
    /\ Len(deployments) >= 2
    /\ \A i \in Records :
          C3_ClaimedPair(deployments[i], out.outputType).CPU > 0
    /\ out.totalCPU > C3_ClaimedPair(deployments[1], out.outputType).CPU

\* C4 as claimed: during one pass the bulk deployment-target request is
\* issued at most once, whether it succeeds or fails.
C4_FetchedAtMostOnce == calls.targets <= 1

\* C4 as amended: a GetDeploymentTarget call issues the bulk request only
\* while no request has succeeded, and at most one: at most one request
\* succeeds, none is issued after it, and every request beyond the first
\* follows a failed one.
C4_FetchedUntilLoaded ==
    /\ [](calls.targets - calls.targetsFailed =
             IF client.deploymentTargetsLoaded THEN 1 ELSE 0)
    /\ [][/\ calls'.targets <= calls.targets + 1
          /\ client.deploymentTargetsLoaded => calls'.targets = calls.targets]_vars

\* C4 witness: the request was issued again after a failure, and succeeded
C4_Witness ==
    /\ calls.targets = 2 /\ calls.targetsFailed = 1
    /\ client.deploymentTargetsLoaded
    /\ apps.i > 2

\* C5 as claimed: a record with maxReplicas > desiredReplicas and
\* currentReplicas > 0 has maxRequests = (requests / currentReplicas) *
\* maxReplicas, with integer division.
C5_ProjectionByCurrentReplicas ==
    \A i \in Records :
       (/\ deployments[i].MaxReplicas > deployments[i].DesiredReplicas
        /\ deployments[i].CurrentReplicas > 0)
       => deployments[i].MaxRequests =
             Scaled(Quotient(deployments[i].Requests,
                             deployments[i].CurrentReplicas),
                    deployments[i].MaxReplicas)

\* C5 as amended: for a record with maxReplicas > desiredReplicas, a
\* deployment has maxRequests = (requests / number of pods listed) *
\* maxReplicas when a pod was listed and (0,0) when none was; a Porter
\* service with currentReplicas > 0 has maxRequests =
\* (requests / currentReplicas) * maxReplicas.
C5_ProjectionByListedPods ==
    \A i \in Records :
       deployments[i].MaxReplicas > deployments[i].DesiredReplicas =>
          CASE origin[i].src = "deployment" ->
                  deployments[i].MaxRequests =
                     IF origin[i].pods > 0
                     THEN Scaled(Quotient(deployments[i].Requests,
                                          origin[i].pods),
                                 deployments[i].MaxReplicas)
                     ELSE ZeroResources
            [] origin[i].src = "porter" ->
                  deployments[i].CurrentReplicas > 0 =>
                     deployments[i].MaxRequests =
                        Scaled(Quotient(deployments[i].Requests,
                                        deployments[i].CurrentReplicas),
                               deployments[i].MaxReplicas)
            [] OTHER -> FALSE

\* C5 witness: a deployment with an HPA above its replica count, whose
\* status counts more replicas than pods are listed and whose requests do
\* not divide evenly among the pods.
C5_Witness ==
    \E i \in Records :
       /\ origin[i].src = "deployment"
       /\ deployments[i].MaxReplicas > deployments[i].DesiredReplicas
       /\ origin[i].pods > 0
       /\ deployments[i].CurrentReplicas > origin[i].pods
       /\ deployments[i].Requests.CPU % origin[i].pods # 0
       /\ deployments[i].MaxRequests.CPU > 0

\* C6: when the deployment target of an application resolves to a non-empty
\* name T and its cluster to a non-empty name C, the location of the
\* application's records is T if T starts with C, and C-T otherwise.
C6_LocationComposition ==
    \A i \in Records :
       (/\ origin[i].src = "porter"
        /\ origin[i].target # <<>> /\ origin[i].cluster # <<>>)
       => LET T == origin[i].target
              C == origin[i].cluster
          IN /\ (Len(T) >= Len(C) /\ SubSeq(T, 1, Len(C)) = C)
                   => deployments[i].Namespace = T
             /\ ~(Len(T) >= Len(C) /\ SubSeq(T, 1, Len(C)) = C)
                   => deployments[i].Namespace = C \o <<"-">> \o T

\* C6 witness: one application on target "d" of cluster "p", located "p-d",
\* and one on target "p-d" of cluster "p", located "p-d".
C6_Witness ==
    /\ \E i \in Records :
          /\ origin[i].target = <<"d">> /\ origin[i].cluster = <<"p">>
          /\ deployments[i].Namespace = <<"p", "-", "d">>
    /\ \E i \in Records :
          /\ origin[i].target = <<"p", "-", "d">> /\ origin[i].cluster = <<"p">>
          /\ deployments[i].Namespace = <<"p", "-", "d">>

\* C7: a CronJob record with desiredReplicas D and A active jobs has
\* currentReplicas = D * A and requests = D times the sum of the requests
\* the job template's containers declare.
C7_CronJobReplication ==
    \A i \in Records :
       origin[i].src = "cronjob" =>
          /\ deployments[i].CurrentReplicas =
                deployments[i].DesiredReplicas * origin[i].active
          /\ deployments[i].Requests =
                Scaled(ResourceMetrics(ContainerA.CPU + ContainerB.CPU,
                                       ContainerA.Memory + ContainerB.Memory),
                       deployments[i].DesiredReplicas)

\* C7 witness: completions = 3 and one active job: currentReplicas = 3 and
\* requests three times the template's sum.
C7_Witness ==
    \E i \in Records :
       /\ origin[i].src = "cronjob" /\ origin[i].active = 1
       /\ deployments[i].DesiredReplicas = 3
       /\ deployments[i].CurrentReplicas = 3
       /\ deployments[i].Requests.CPU = 3 * (ContainerA.CPU + ContainerB.CPU)

\* The grammar of resource quantities: an integer is an optional sign and
\* digits, a number is an optional sign and digits with an optional point.
IsInteger(s) ==
    LET p == Accept(s, 1, {"+", "-"})
    IN p <= Len(s) /\ \A i \in p..Len(s) : s[i] \in DigitSet

IsNumber(s) ==
    LET p == Accept(s, 1, {"+", "-"})
        body == SubSeq(s, p, Len(s))
    IN /\ \E i \in 1..Len(body) : body[i] \in DigitSet
       /\ \A i \in 1..Len(body) : body[i] \in DigitSet \cup {"."}
       /\ Cardinality({ i \in 1..Len(body) : body[i] = "." }) <= 1

WithSuffix(s, suffix, IsValue(_)) ==
    HasSuffix(s, suffix) /\ IsValue(SubSeq(s, 1, Len(s) - Len(suffix)))

WellFormed(value, isCPU) ==
    LET v == TrimSpace(value)
        u == ToUpper(v)
    IN IF isCPU
       THEN \/ IsNumber(v)
            \/ WithSuffix(v, <<"m">>, IsInteger)
            \/ \E w \in { <<"c", "o", "r", "e">>, <<"c", "o", "r", "e", "s">>,
                          <<" ", "c", "o", "r", "e">>,
                          <<" ", "c", "o", "r", "e", "s">> } :
                  WithSuffix(v, w, IsNumber)
       ELSE \/ IsInteger(u)
            \/ \E w \in { <<"K", "I">>, <<"M", "I">>, <<"G", "I">>,
                          <<"K">>, <<"M">>, <<"G">> } :
                  WithSuffix(u, w, IsNumber)

\* C8: parseResourceValue returns an error for every non-empty string that
\* does not match the grammar of its kind.
C8_MalformedIsRefused ==
    (conv.op = "parse" /\ conv.step = 1 /\ conv.value # <<>>
        /\ ~WellFormed(conv.value, conv.isCPU))
    => conv.result.err

\* The rendering precision of a formatted quantity: one hundredth of the
\* unit it is rendered in.
Precision(op, quantity) ==
    IF op = "cpu" THEN (IF quantity >= 1000 THEN 10 ELSE 0)
    ELSE IF quantity >= GB THEN (GB \div 100) + 1
    ELSE IF quantity >= MB THEN (MB \div 100) + 1
    ELSE IF quantity >= KB THEN (KB \div 100) + 1
    ELSE 0

\* C9: parseResourceValue gives back, without error and within the
\* rendering precision, every quantity formatCPU or formatMemory rendered.
C9_RoundTrip ==
    (conv.op \in {"cpu", "memory"} /\ conv.step = 2) =>
        /\ ~conv.result.err
        /\ conv.result.value - conv.quantity <= Precision(conv.op, conv.quantity)
        /\ conv.quantity - conv.result.value <= Precision(conv.op, conv.quantity)

\* C10 as claimed: formatMemory(1500000000) yields "1.50 GB".
C10_OneAndAHalfGB ==
    (conv.op = "memory" /\ conv.quantity = 1500000000 /\ conv.step >= 1)
    => conv.text = <<"1", ".", "5", "0", " ", "G", "B">>

\* C10 as amended: formatMemory(1500000000) yields "1.40 GB", the quotient
\* by 1024^3 with two decimals; "1.50 GB" is what 1610612736 bytes yield.
C10_BinaryGigabytes ==
    (conv.op = "memory" /\ conv.step >= 1) =>
        /\ conv.quantity = 1500000000
              => conv.text = <<"1", ".", "4", "0", " ", "G", "B">>
        /\ conv.quantity = 1610612736
              => conv.text = <<"1", ".", "5", "0", " ", "G", "B">>

\* C10 witness: 1500000000 bytes have been formatted
C10_Witness ==
    conv.op = "memory" /\ conv.quantity = 1500000000 /\ conv.step = 1
    /\ conv.text # <<>>

\* Reading a rendered number: the digits of n without leading zero, and
\* digits "." two digits as a count of hundredths.
IsDecimalOf(t, n) ==
    /\ t # <<>> /\ \A i \in 1..Len(t) : t[i] \in DigitSet
    /\ (Len(t) = 1 \/ t[1] # "0")
    /\ DigitsValue(t) = n

IsTwoDecimals(t) ==
    /\ Len(t) >= 4 /\ t[Len(t) - 2] = "."
    /\ \A i \in (1..Len(t)) \ {Len(t) - 2} : t[i] \in DigitSet
    /\ (Len(t) = 4 \/ t[1] # "0")

Hundredths(t) ==
    DigitsValue(SubSeq(t, 1, Len(t) - 3)) * 100
    + DigitsValue(SubSeq(t, Len(t) - 1, Len(t)))

WithoutSuffix(text, suffix) == SubSeq(text, 1, Len(text) - Len(suffix))

\* h hundredths is bytes / unit rounded to the nearest hundredth. For the
\* unit GB the remainder is compared in units of 1024 bytes.
NearestHundredth(h, bytes, unit) ==
    LET d == h - 100 * (bytes \div unit)
        fine == unit < GB
        r == IF fine THEN bytes % unit ELSE (bytes % unit) \div KB
        u == IF fine THEN unit ELSE unit \div KB
        slack == IF fine THEN 0 ELSE 200
    IN /\ d \in 0..100
       /\ 2 * (100 * r - d * u) <= u + slack
       /\ 2 * (d * u - 100 * r) <= u + slack

RenderedIn(text, suffix, bytes, unit) ==
    /\ HasSuffix(text, suffix)
    /\ IsTwoDecimals(WithoutSuffix(text, suffix))
    /\ Hundredths(WithoutSuffix(text, suffix)) >= 100
    /\ NearestHundredth(Hundredths(WithoutSuffix(text, suffix)), bytes, unit)

\* C11: formatCPU(n) is "<n>m" for 0 <= n <= 999 and n/1000 with two
\* decimals followed by " cores" for n >= 1000; formatMemory(b) is "<b> B"
\* below 1024, and b divided by 1024, 1024^2, 1024^3 with two decimals
\* followed by " KB", " MB", " GB" from 1024, 1024^2, 1024^3 on: the value
\* shown is at least 1.00.
C11_UnitThresholds ==
    LET q == conv.quantity
        text == conv.text
        cores == <<" ", "c", "o", "r", "e", "s">>
    IN /\ (conv.op = "cpu" /\ conv.step >= 1) =>
             IF q <= 999
             THEN HasSuffix(text, <<"m">>)
                  /\ IsDecimalOf(WithoutSuffix(text, <<"m">>), q)
             ELSE /\ HasSuffix(text, cores)
                  /\ IsTwoDecimals(WithoutSuffix(text, cores))
                  /\ 10 * Hundredths(WithoutSuffix(text, cores)) - q \in -5..5
       /\ (conv.op = "memory" /\ conv.step >= 1) =>
             IF q < 1024
             THEN HasSuffix(text, <<" ", "B">>)
                  /\ IsDecimalOf(WithoutSuffix(text, <<" ", "B">>), q)
             ELSE IF q < 1024 * 1024
             THEN RenderedIn(text, <<" ", "K", "B">>, q, 1024)
             ELSE IF q < 1024 * 1024 * 1024
             THEN RenderedIn(text, <<" ", "M", "B">>, q, 1024 * 1024)
             ELSE RenderedIn(text, <<" ", "G", "B">>, q, 1024 * 1024 * 1024)

\* C11 witness: both sides of each threshold have been formatted; shown here
\* is the first quantity of the cores form.
C11_Witness ==
    /\ conv.op = "cpu" /\ conv.quantity = 1000 /\ conv.step = 1
    /\ conv.text = <<"1", ".", "0", "0", " ", "c", "o", "r", "e", "s">>

\* The exact value of a number of the grammar, as a fraction
NumberValue(s) ==
    LET p == Accept(s, 1, {"+", "-"})
        body == SubSeq(s, p, Len(s))
        digits == SelectSeq(body, LAMBDA c : c # ".")
        point == IF \E i \in 1..Len(body) : body[i] = "."
                 THEN CHOOSE i \in 1..Len(body) : body[i] = "."
                 ELSE Len(body) + 1
    IN [neg |-> p > 1 /\ s[1] = "-",
        num |-> DigitsValue(digits),
        den |-> Pow10(Len(body) - point + IF point > Len(body) THEN 1 ELSE 0)]

\* The number before a suffix, times the multipliers, cut to a whole number
Times(s, suffix, ms) ==
    LET prod == MulAll(NumberValue(WithoutSuffix(s, suffix)), ms)
        mag == prod.num \div prod.den
    IN IF prod.neg THEN 0 - mag ELSE mag

CoreWords ==
    << <<" ", "c", "o", "r", "e", "s">>, <<" ", "c", "o", "r", "e">>,
       <<"c", "o", "r", "e", "s">>, <<"c", "o", "r", "e">> >>

MemoryUnits ==
    << [suffix |-> <<"K", "I">>, ms |-> <<1024>>],
       [suffix |-> <<"M", "I">>, ms |-> <<1024, 1024>>],
       [suffix |-> <<"G", "I">>, ms |-> <<1024, 1024, 1024>>],
       [suffix |-> <<"K">>, ms |-> <<1000>>],
       [suffix |-> <<"M">>, ms |-> <<1000, 1000>>],
       [suffix |-> <<"G">>, ms |-> <<1000, 1000, 1000>>] >>

\* The canonical quantity of a well-formed string: millicores, bytes
Canonical(value, isCPU) ==
    LET v == TrimSpace(value)
        u == ToUpper(v)
        words == { k \in 1..Len(CoreWords) : WithSuffix(v, CoreWords[k], IsNumber) }
        units == { k \in 1..Len(MemoryUnits) :
                      WithSuffix(u, MemoryUnits[k].suffix, IsNumber) }
    IN IF isCPU
       THEN IF WithSuffix(v, <<"m">>, IsInteger) THEN Times(v, <<"m">>, <<1>>)
            ELSE IF words # {}
            THEN Times(v, CoreWords[CHOOSE k \in words : TRUE], <<1000>>)
            ELSE Times(v, <<>>, <<1000>>)
       ELSE IF units # {}
            THEN LET k == CHOOSE k \in units : TRUE
                 IN Times(u, MemoryUnits[k].suffix, MemoryUnits[k].ms)
            ELSE Times(u, <<>>, <<1>>)

\* C12: parseResourceValue maps every well-formed string to its canonical
\* quantity without error (millicores for "<n>m", cores times 1000 without
\* suffix or with core(s); the value times 1024^1/2/3 for Ki/Mi/Gi and
\* times 1000^1/2/3 for K/M/G in any case of letters, the integer as bytes
\* without suffix), and the empty string to 0 without error.
C12_WellFormedIsCanonical ==
    (conv.op = "parse" /\ conv.step = 1) =>
        /\ conv.value = <<>> => conv.result = Result(0, FALSE)
        /\ WellFormed(conv.value, conv.isCPU) =>
              /\ ~conv.result.err
              /\ conv.result.value = Canonical(conv.value, conv.isCPU)

\* ---------------------------------------------------------------------------
\* C13

\* The records getDeploymentMetrics built, with the API answers it read
DeploymentRecords == { i \in Records : origin[i].src = "deployment" }

\* The answers api, had the lookups that failed succeeded
LookupsSucceed(api) == [api EXCEPT !.metricsErr = FALSE, !.hpaErr = FALSE]

\* The lines of stderr with the given text
Lines(text) == { k \in DOMAIN stderr : stderr[k].text = text }

\* C13: in getDeploymentMetrics a failed pod metrics list or a failed HPA list
\* does not abort the record. Each such failure has its record (as many
\* warnings of either kind as records built under that failure, and none of
\* these records came with an error returned); the usage is (0,0) under a
\* failed metrics list; MaxReplicas = DesiredReplicas and MaxRequests = (0,0)
\* under a failed HPA list; name, replica counts and requests are those the
\* function returns when the failed lookups succeed.
C13_PartialDataDegrades ==
    /\ \A i \in DeploymentRecords :
         LET api == origin[i].api
             d == deployments[i]
             r == getDeploymentMetrics(Namespace, DeploymentName, api)
             ok == getDeploymentMetrics(Namespace, DeploymentName,
                                        LookupsSucceed(api))
         IN /\ ~r.err /\ ~ok.err /\ r.dm = d
            /\ api.metricsErr => d.Usage = ZeroResources
            /\ api.hpaErr => /\ d.MaxReplicas = d.DesiredReplicas
                             /\ d.MaxRequests = ZeroResources
            /\ d.Name = ok.dm.Name
            /\ d.Namespace = ok.dm.Namespace
            /\ d.DesiredReplicas = ok.dm.DesiredReplicas
            /\ d.CurrentReplicas = ok.dm.CurrentReplicas
            /\ d.Requests = ok.dm.Requests
    /\ Cardinality(Lines("Warning: Error getting pod metrics"))
         = Cardinality({ i \in DeploymentRecords : origin[i].api.metricsErr })
    /\ Cardinality(Lines("Warning: Error listing HPA"))
         = Cardinality({ i \in DeploymentRecords : origin[i].api.hpaErr })

\* A record built while both lookups failed, although they had data to give,
\* next to a record built from the same data without failure
C13_Witness ==
    \E i, j \in DeploymentRecords :
       /\ origin[i].api.metricsErr /\ origin[i].api.hpaErr
       /\ origin[i].api.podMetrics # <<>>
       /\ FirstMatchingHPA(origin[i].api.hpas, DeploymentName, 1) # 0
       /\ deployments[i].Requests # ZeroResources
       /\ ~origin[j].api.metricsErr /\ ~origin[j].api.hpaErr
       /\ deployments[j].Usage # ZeroResources

\* ---------------------------------------------------------------------------
\* C14

\* The lines of stderr that report a failed pod list of a deployment
PodListFailures == { k \in DOMAIN stderr : stderr[k].cause = "error listing pods" }

\* C14: a failed pod list of a deployment degrades gracefully. The deployment
\* is not dropped from the result with a warning, and the run is not ended
\* with exit status 1 when the deployment is the one asked for by name.
C14_PodListFailureDegrades ==
    \A k \in PodListFailures :
       /\ stderr[k].text # "Warning: Error getting metrics for deployment"
       /\ ~(pc = "exit1" /\ stderr[k].text = "Error getting metrics for deployment")

\* ---------------------------------------------------------------------------
\* C15

\* The records getPorterApplicationMetrics built
PorterRecords == { i \in Records : origin[i].src = "porter" }

\* The applications whose GetApplication call failed
FailedApplications ==
    { stderr[k].subject : k \in Lines("Warning: Error getting application") }

\* C15 as stated: when a call of the remote API made while processing an
\* application fails, no record of that application is added.
C15_AnyFailureDropsApplication ==
    \A i \in PorterRecords :
       ~origin[i].api.targetsFailed /\ ~origin[i].api.clustersFailed

\* The records up to now stay as they are, in their order
RecordsKept ==
    /\ Len(deployments') >= Len(deployments)
    /\ SubSeq(deployments', 1, Len(deployments)) = deployments

\* C15: in getPorterApplicationMetrics an application whose GetApplication
\* call fails adds no record; a failed fetch of the deployment targets or of
\* the clusters leaves the application's records in the result, located by
\* the raw target identifier or by the target's name alone. In either case
\* the earlier records stay unchanged and in order, the loop goes on to the
\* last application, and the pass returns an error only when ListApplications
\* fails.
C15_FailedApplicationSkipped ==
    /\ [](/\ \A i \in PorterRecords :
               LET o == origin[i].api IN
               /\ o.app \notin FailedApplications
               /\ o.targetsFailed => deployments[i].Namespace = o.targetID
               /\ o.clustersFailed =>
                     /\ origin[i].target # <<>>
                     /\ deployments[i].Namespace = origin[i].target
          /\ (flags.usePorter /\ pc \in {"print", "done"})
                => apps.i = Len(apps.list) + 1
          /\ (flags.usePorter /\ pc = "exit1")
                => /\ apps.i = 0
                   /\ Lines("Error getting Porter application metrics") # {})
    /\ [][RecordsKept]_vars

\* The first application has its records although a catalog fetch failed
\* while it was processed, the second one is skipped after GetApplication
\* failed, and the pass ended without error with the records of the first
C15_Witness ==
    /\ pc = "done" /\ flags.usePorter
    /\ Len(apps.list) = 2
    /\ apps.list[2] \in FailedApplications
    /\ PorterRecords # {}
    /\ \A i \in PorterRecords :
          /\ origin[i].api.app = apps.list[1]
          /\ origin[i].api.targetsFailed \/ origin[i].api.clustersFailed

\* ---------------------------------------------------------------------------
\* C16

\* The workload or application asked for by name was not there
NamedNotFound ==
    \/ Lines("Error getting deployment") # {}
    \/ Lines("Warning: Error getting cronjob") # {}
    \/ /\ flags.usePorter /\ pc \in {"applications", "print", "done"}
       /\ \A k \in DOMAIN apps.list : apps.list[k] # DeploymentName

\* C16: a deployment, a CronJob or an application asked for by name that does
\* not exist ends the run with a fatal error and no table; without a name, a
\* workload whose lookup fails is skipped with a warning and the run goes on.
C16_NamedNotFoundIsFatal ==
    /\ (flags.named /\ NamedNotFound) =>
          (pc \notin {"print", "done"} /\ out = NoOutput)
    /\ (~flags.named /\ pc = "exit1") =>
          stderr[Len(stderr)].text \in { "Error listing deployments",
                                         "Error listing cronjobs",
                                         "Error getting Porter application metrics" }

\* ---------------------------------------------------------------------------
\* C17

\* C17: in every record of every collector the replica counts are not
\* negative; MaxReplicas >= DesiredReplicas when an autoscaler bound is known
\* (a matching HPA, autoscaling enabled for a Porter service), and
\* MaxReplicas = DesiredReplicas when none is known.
C17_MaxReplicasBoundsDesired ==
    \A i \in Records :
       LET d == deployments[i] IN
       /\ d.CurrentReplicas >= 0 /\ d.DesiredReplicas >= 0 /\ d.MaxReplicas >= 0
       /\ origin[i].bound => d.MaxReplicas >= d.DesiredReplicas
       /\ ~origin[i].bound => d.MaxReplicas = d.DesiredReplicas

\* ---------------------------------------------------------------------------
\* C18

\* No step fetches or changes a catalog that is loaded
LoadedIsFinal ==
    /\ client.deploymentTargetsLoaded =>
          /\ calls'.targets = calls.targets
          /\ client'.deploymentTargetCache = client.deploymentTargetCache
          /\ client'.deploymentTargetsLoaded
    /\ client.clustersLoaded =>
          /\ calls'.clusters = calls.clusters
          /\ client'.clusterCache = client.clusterCache
          /\ client'.clustersLoaded

\* C18: once a catalog (deployment targets, clusters) is loaded, no later
\* GetDeploymentTarget / GetCluster call fetches it again or changes the
\* cache, whether the key is there or not; a key that the loaded catalog does
\* not hold is answered as not found: the record is located by the raw target
\* identifier, or by the target's name alone for a cluster.
C18_LoadedCachesAreFinal ==
    /\ [][LoadedIsFinal]_vars
    /\ [](\A i \in PorterRecords :
             LET o == origin[i].api IN
             /\ (~o.targetsFailed
                   /\ o.targetID \notin DOMAIN client.deploymentTargetCache)
                  => /\ client.deploymentTargetsLoaded
                     /\ deployments[i].Namespace = o.targetID
             /\ (o.clusterID # 0 /\ ~o.clustersFailed
                   /\ o.clusterID \notin DOMAIN client.clusterCache)
                  => /\ client.clustersLoaded
                     /\ deployments[i].Namespace = origin[i].target)

\* After both catalogs were loaded for the first application, the second asks
\* for a target the catalog does not hold, or for a target whose cluster the
\* catalog does not hold, and is answered from memory
C18_Witness ==
    /\ calls.targets = 1 /\ calls.clusters = 1
    /\ \E i, j \in PorterRecords :
          /\ origin[i].api.app # origin[j].api.app
          /\ ~origin[i].api.targetServed
          /\ origin[i].api.clusterID # 0 /\ ~origin[i].api.clusterServed
          /\ origin[j].api.targetServed /\ origin[j].api.clusterServed
          /\ \/ origin[j].api.targetID \notin DOMAIN client.deploymentTargetCache
             \/ /\ origin[j].api.clusterID # 0
                /\ origin[j].api.clusterID \notin DOMAIN client.clusterCache

\* ---------------------------------------------------------------------------
\* C19

\* The HPAs of the list that target the deployment by name, kind Deployment
Targeting(hpas) ==
    { k \in DOMAIN hpas : /\ hpas[k].targetName = DeploymentName
                          /\ hpas[k].targetKind = "Deployment" }

Least(S) == CHOOSE k \in S : \A m \in S : k <= m

\* C19: in getDeploymentMetrics, when the HPA list was read and holds an HPA
\* that targets the deployment by name with kind Deployment, MaxReplicas is
\* the maxReplicas of the first such HPA of the list; if then
\* MaxReplicas > DesiredReplicas and at least one pod is listed, MaxRequests is
\* (Requests \div pods) * MaxReplicas, componentwise; in every other case
\* MaxRequests is (0,0).
C19_FirstMatchingHPAProjects ==
    \A i \in DeploymentRecords :
       LET api == origin[i].api
           d == deployments[i]
           n == Len(api.pods)
           T == Targeting(api.hpas)
       IN IF ~api.hpaErr /\ T # {}
          THEN /\ d.MaxReplicas = api.hpas[Least(T)].maxReplicas
               /\ IF d.MaxReplicas > d.DesiredReplicas /\ n > 0
                  THEN d.MaxRequests =
                          ResourceMetrics((d.Requests.CPU \div n) * d.MaxReplicas,
                                          (d.Requests.Memory \div n) * d.MaxReplicas)
                  ELSE d.MaxRequests = ZeroResources
          ELSE d.MaxRequests = ZeroResources

\* One record whose list holds two HPAs targeting the deployment, with
\* different bounds, and one record projected from an HPA that comes second
\* in its list
C19_Witness ==
    \E i, j \in DeploymentRecords :
       /\ ~origin[i].api.hpaErr
       /\ \E k, m \in Targeting(origin[i].api.hpas) :
             /\ k < m
             /\ origin[i].api.hpas[k].maxReplicas # origin[i].api.hpas[m].maxReplicas
             /\ deployments[i].MaxReplicas = origin[i].api.hpas[k].maxReplicas
       /\ ~origin[j].api.hpaErr
       /\ Targeting(origin[j].api.hpas) = {2}
       /\ deployments[j].MaxReplicas > deployments[j].DesiredReplicas
       /\ deployments[j].MaxRequests # ZeroResources

\* ---------------------------------------------------------------------------
\* C20

\* The records getCronJobMetrics built
CronJobRecords == { i \in Records : origin[i].src = "cronjob" }

\* C20: in every CronJob record DesiredReplicas is the completions of the job
\* template if set, else its parallelism if set, else 1; MaxReplicas equals
\* DesiredReplicas and MaxRequests equals Requests, whatever HPAs the
\* namespace holds and however many jobs are active.
C20_CronJobDoesNotScale ==
    \A i \in CronJobRecords :
       LET api == origin[i].api
           d == deployments[i]
       IN /\ ~api.completions.isNil => d.DesiredReplicas = api.completions.val
          /\ (api.completions.isNil /\ ~api.parallelism.isNil)
                => d.DesiredReplicas = api.parallelism.val
          /\ (api.completions.isNil /\ api.parallelism.isNil)
                => d.DesiredReplicas = 1
          /\ d.MaxReplicas = d.DesiredReplicas
          /\ d.MaxRequests = d.Requests

\* A CronJob with completions and parallelism that differ and two active
\* jobs, next to a CronJob without completions whose name an HPA of the
\* namespace targets
C20_Witness ==
    \E i, j \in CronJobRecords :
       /\ ~origin[i].api.completions.isNil /\ ~origin[i].api.parallelism.isNil
       /\ origin[i].api.completions.val # origin[i].api.parallelism.val
       /\ Len(origin[i].api.active) = 2
       /\ origin[j].api.completions.isNil
       /\ Targeting(origin[j].api.hpas) # {}
       /\ deployments[j].Requests # ZeroResources

\* ---------------------------------------------------------------------------
\* C21

\* Autoscaling is present and enabled for the service
AutoscalingEnabled(service) ==
    ~service.Autoscaling.isNil /\ service.Autoscaling.Enabled

\* (trunc(cpuCores x 1000), ramMegabytes x 1024 x 1024), for cores held in
\* 1/10000 of a core: the whole millicores are the cores without their last
\* digit
PerInstance(service) ==
    ResourceMetrics(service.CPUCores \div 10,
                    service.RAMMegabytes * 1024 * 1024)

Scale(pair, n) == ResourceMetrics(pair.CPU * n, pair.Memory * n)

Entries(catalog, id) == { k \in DOMAIN catalog : catalog[k].ID = id }

\* The resolution of the deployment target of record i failed: the fetch of
\* the catalog failed, or the catalog does not hold the identifier
TargetUnresolved(i) ==
    \/ origin[i].api.targetsFailed
    \/ Entries(TargetCatalog, origin[i].api.targetID) = {}

\* The target of record i resolved, to a target of a cluster whose lookup
\* failed or gave an empty name
ClusterUnresolved(i) ==
    /\ ~TargetUnresolved(i)
    /\ \E k \in Entries(TargetCatalog, origin[i].api.targetID) :
          /\ TargetCatalog[k].Name # <<>>
          /\ TargetCatalog[k].ClusterID # 0
          /\ \/ origin[i].api.clustersFailed
             \/ \A m \in Entries(ClusterCatalog, TargetCatalog[k].ClusterID) :
                   ClusterCatalog[m].Name = <<>>

\* The name the catalog gives the target of record i
TargetName(i) ==
    TargetCatalog[CHOOSE k \in Entries(TargetCatalog, origin[i].api.targetID) :
                     TRUE].Name

\* C22: when the deployment target of an application does not resolve (the
\* catalog fetch fails, or the catalog does not hold the identifier) its
\* records are located by the raw target identifier, and every service of the
\* application has its record, in order; when the target resolves and its
\* cluster lookup fails or gives an empty name, the records are located by
\* the bare target name.
C22_LocationFallback ==
    \A i \in PorterRecords :
       LET o == origin[i].api
           first == i - o.index
       IN /\ TargetUnresolved(i) =>
               /\ deployments[i].Namespace = o.targetID
               /\ \A m \in 1..Len(o.services) :
                     /\ first + m \in PorterRecords
                     /\ origin[first + m].api.app = o.app
                     /\ origin[first + m].api.service = o.services[m]
                     /\ deployments[first + m].Namespace = o.targetID
          /\ ClusterUnresolved(i) => deployments[i].Namespace = TargetName(i)

\* An application with two services whose target did not resolve, located by
\* the raw identifier, and an application whose target resolved and whose
\* cluster did not, located by the bare target name
C22_Witness ==
    \E i, j \in PorterRecords :
       /\ TargetUnresolved(i)
       /\ Len(origin[i].api.services) = 2
       /\ deployments[i].Namespace = origin[i].api.targetID
       /\ ClusterUnresolved(j)
       /\ deployments[j].Namespace = TargetName(j)
       /\ deployments[j].Namespace # origin[j].api.targetID

\* ---------------------------------------------------------------------------
\* C23

\* The table was printed in max-requests mode, with its rows
MaxRequestsTable ==
    Printed /\ out.outputType = OutputTypeMaxRequests /\ ~out.totalOnly

\* C23: in max-requests mode the pair reported for a Porter service record is
\* its footprint at its maximum replica count, the per-instance pair times
\* MaxReplicas, whatever its instances and its autoscaling settings.
C23_MaxRequestsIsFootprintAtMax ==
    MaxRequestsTable =>
       \A i \in PorterRecords :
          out.rows[i] = Scale(PerInstance(origin[i].api.service),
                              deployments[i].MaxReplicas)

\* ---------------------------------------------------------------------------
\* C24

\* The cache that holds a whole catalog: each entry under its identifier
Complete(catalog) ==
    [id \in { catalog[k].ID : k \in DOMAIN catalog } |->
        catalog[CHOOSE k \in DOMAIN catalog : catalog[k].ID = id]]

\* A bulk load that fails in this step leaves its cache and its flag alone
FailedLoadChangesNothing ==
    /\ calls'.targetsFailed > calls.targetsFailed =>
          /\ client'.deploymentTargetCache = client.deploymentTargetCache
          /\ ~client.deploymentTargetsLoaded /\ ~client'.deploymentTargetsLoaded
    /\ calls'.clustersFailed > calls.clustersFailed =>
          /\ client'.clusterCache = client.clusterCache
          /\ ~client.clustersLoaded /\ ~client'.clustersLoaded

\* C24: a bulk load (loadDeploymentTargets, loadClusters) that returns an
\* error leaves the cache with the entries it had and the loaded flag false;
\* a cache never holds a part of a catalog: it is empty while its flag is
\* false, and holds the whole result of one successful fetch when its flag is
\* true.
C24_FailedLoadLeavesClient ==
    /\ [][FailedLoadChangesNothing]_vars
    /\ [](/\ client.deploymentTargetCache =
                IF client.deploymentTargetsLoaded THEN Complete(TargetCatalog)
                ELSE EmptyMap
          /\ client.clusterCache =
                IF client.clustersLoaded THEN Complete(ClusterCatalog)
                ELSE EmptyMap
          /\ client.deploymentTargetsLoaded => calls.targets > calls.targetsFailed
          /\ client.clustersLoaded => calls.clusters > calls.clustersFailed)

\* The fetch of the targets failed once and succeeded after that; the fetch
\* of the clusters failed and has not succeeded
C24_Witness ==
    /\ calls.targetsFailed = 1 /\ client.deploymentTargetsLoaded
    /\ client.deploymentTargetCache = Complete(TargetCatalog)
    /\ calls.clustersFailed >= 1 /\ ~client.clustersLoaded
    /\ client.clusterCache = EmptyMap

====
